---- MODULE Spec2Model ----
(***************************************************************************)
(* Conway's Game of Life (src/life/life.go) with its seed-file parser      *)
(* (src/unnamed/part_004): the toroidal Field, the population sources, the *)
(* field definition file parser and the double-buffered Life engine; and   *)
(* the two puzzles src/rps/rps.go and src/armypuzzle/armypuzzle.go.        *)
(*                                                                         *)
(* Nine specifications share the module:                                   *)
(*   SpecField  - the Field operations set / alive / next, called on every *)
(*                field of the bounded dimensions;                         *)
(*   SpecParse  - NewFileLocationProvider run on bounded seed files;       *)
(*   SpecProvider - a FileLocationProvider built, walked, and a second     *)
(*                one built in the same process;                           *)
(*   SpecLife   - the program: processArgs, NewLife, step, String;         *)
(*   SpecSeeder - processArgs, NewLife and a caller of                     *)
(*                Seeder.nextLocation;                                     *)
(*   SpecRerun  - the program on the random source, run twice with the     *)
(*                same command line;                                       *)
(*   SpecSimulate - the program with its -n, -s and -r flags: simulate,    *)
(*                the run summary, and a run resumed from the summary;     *)
(*   SpecRps    - main of rps.go: every match-up, ten random matches;      *)
(*   SpecArmy   - Army.solve on main's regiment list and its initial parts. *)
(***************************************************************************)
EXTENDS Integers, Sequences, FiniteSets, TLC

VARIABLES
    field,          \* SpecField: the Field under test
    call,           \* SpecField: the Field method call in flight and its outcome
    file,           \* SpecParse: the lines readLines returned
    columnOffset,   \* package variable columnOffset (part_004:93)
    flp,            \* SpecParse: the FileLocationProvider built, and the error
    trace,          \* SpecParse: one record per parseConfigLine call of the parse
    ppc,            \* SpecParse: position of the parse
    flags,          \* SpecLife: the flag variables of life.go
    seeder,         \* SpecLife: the package variable seeder (its provider)
    heap,           \* SpecLife: the two Field objects a Life points to
    life,           \* SpecLife: the Life value (thisGen, nextGen are addresses in heap)
    emitted,        \* SpecLife: the locations seeder.nextLocation() has returned
    op,             \* SpecLife: the operation that ran last
    pc,             \* SpecLife: position of main
    shown,          \* SpecLife: the text Life.String() returned last
    rng,            \* the math/rand generator: its seed, the sequences it gave
    runs,           \* SpecRerun: the fields of this run and the run before it
    sim,            \* SpecSimulate: the loop of stepThroughAll, what was displayed
    rps,            \* SpecRps: the call of Versus, Beats or findMatchUp in flight
    army            \* SpecArmy: the Army and the position of solve

vars == <<field, call, file, columnOffset, flp, trace, ppc,
          flags, seeder, heap, life, emitted, op, pc, shown, rng, runs,
          sim, rps, army>>

fieldVars == <<field, call>>
parseVars == <<file, flp, trace, ppc>>
lifeVars  == <<flags, seeder, heap, life, emitted, op, pc>>
runVars   == <<shown, rng, runs>>
puzzleVars == <<rps, army>>

----------------------------------------------------------------------------
(* Bounds *)

\* largest width and height of a Field of SpecField and of the -x, -y flags
MaxDim == 3
\* largest number of cells of a Field of SpecField and of the -x by -y field
MaxCells == 9
\* largest number of lines of a seed file built from ExampleLines
MaxLines == 3
\* largest length of the line of a one-line seed file over Alphabet
MaxLineLen == 4
\* largest number of generations a Life of SpecLife is stepped through
MaxGens == 3
\* largest value of the -seed flag and of the clock
MaxSeed == 2
\* largest value of the -n flag in SpecSimulate
MaxShown == 2
\* largest value of the -s flag in SpecSimulate
MaxStart == 3

----------------------------------------------------------------------------
(* Go arithmetic *)

\* Go's % truncates toward zero: the result has the sign of the dividend.
GoRem(a, b) == IF a >= 0 THEN a % b ELSE -((-a) % b)

\* Go's / on ints truncates toward zero.
GoDiv(a, b) == IF (a >= 0) = (b > 0) THEN (IF a >= 0 THEN a ELSE -a) \div (IF b > 0 THEN b ELSE -b)
               ELSE -((IF a >= 0 THEN a ELSE -a) \div (IF b > 0 THEN b ELSE -b))

max(a, b) == IF a > b THEN a ELSE b

----------------------------------------------------------------------------
(* FieldLocation and Field (life.go:269-436) *)

NewFieldLocation(x, y) == [X |-> x, Y |-> y]

\* make([][]bool, h) and make([]bool, w) panic on a negative length; the
\* inner make runs only when h > 0.
NewFieldPanics(w, h) == h < 0 \/ (h > 0 /\ w < 0)

NewField(w, h) ==
    [state |-> [y \in 0..(h - 1) |-> [x \in 0..(w - 1) |-> FALSE]],
     width |-> w, height |-> h]

contains(f, loc) == loc.X < f.width /\ loc.Y < f.height

\* f.state[loc.Y][loc.X] = alive is reached when contains holds; a negative
\* index is a run-time panic (index out of range).
setPanics(f, loc) == contains(f, loc) /\ (loc.Y < 0 \/ loc.X < 0)

\* set assigning the whole row loc.Y
setMutantRow(f, loc, alive) ==
    IF ~contains(f, loc) THEN f
    ELSE [f EXCEPT !.state[loc.Y] = [x \in 0..(f.width - 1) |-> alive]]

set(f, loc, alive) ==
    IF ~contains(f, loc) THEN f
    ELSE [f EXCEPT !.state[loc.Y][loc.X] = alive]

\* x %= f.width without x += f.width before it
wrapXMutantNoAdd(f, x) == GoRem(x, f.width)

wrapX(f, x) == GoRem(x + f.width, f.width)
wrapY(f, y) == GoRem(y + f.height, f.height)

\* x %= f.width panics on width 0 (integer divide by zero); f.state[y][x]
\* panics on a negative index.
alivePanics(f, x, y) ==
    \/ f.width = 0
    \/ f.height = 0
    \/ wrapX(f, x) < 0
    \/ wrapY(f, y) < 0

\* alive without the wraparound: a cell outside the field is dead
aliveMutantNoWrap(f, x, y) ==
    /\ x \in 0..(f.width - 1)
    /\ y \in 0..(f.height - 1)
    /\ f.state[y][x]

alive(f, x, y) == f.state[wrapY(f, y)][wrapX(f, x)]

Offsets == (-1..1) \X (-1..1)

\* neighbors without the test (j != 0 || i != 0)
neighborsMutantSelf(f, x, y) ==
    Cardinality({o \in Offsets : alive(f, x + o[1], y + o[2])})

\* the local variable neighbors of Field.next after its two loops
neighbors(f, x, y) ==
    Cardinality({o \in Offsets :
                    (o[2] # 0 \/ o[1] # 0) /\ alive(f, x + o[1], y + o[2])})

nextPanics(f, x, y) ==
    \E o \in Offsets : alivePanics(f, x + o[1], y + o[2])

\* next without the test of the cell's own state
nextMutantTwo(f, x, y) ==
    neighbors(f, x, y) = 3 \/ neighbors(f, x, y) = 2

next(f, x, y) ==
    neighbors(f, x, y) = 3 \/ (neighbors(f, x, y) = 2 /\ alive(f, x, y))

----------------------------------------------------------------------------
(* SpecField: every Field of the bounded dimensions, one method call at a  *)
(* time. A call that panics ends the program.                              *)

Dims == {d \in (1..MaxDim) \X (1..MaxDim) : d[1] * d[2] <= MaxCells}

AllFields ==
    UNION {{[state |-> s, width |-> d[1], height |-> d[2]] :
              s \in [0..(d[2] - 1) -> [0..(d[1] - 1) -> BOOLEAN]]} : d \in Dims}

Idle(f) == [op |-> "idle", x |-> 0, y |-> 0, b |-> FALSE,
            panic |-> FALSE, ret |-> FALSE, n |-> 0, before |-> f]

\* values of the variables a specification does not use
NoField == [state |-> <<>>, width |-> 0, height |-> 0]
NoFile == [exists |-> FALSE, scanErr |-> FALSE, lines |-> <<>>]
NoProvider == [kind |-> "nil", i |-> 0, width |-> 0, height |-> 0, locs |-> <<>>]
NoResult == [err |-> "none", provider |-> NoProvider]
NoFlags == [fieldWidth |-> 0, fieldHeight |-> 0, initPath |-> "", seed |-> 0,
            gens |-> 0, gensPerSec |-> 0, startGen |-> 0]
NoHeap == [a \in {"A", "B"} |-> NoField]
NoLife == [thisGen |-> "A", nextGen |-> "B", width |-> 0, height |-> 0, genCount |-> 0]
NoRng == [seed |-> 0, memo |-> {}]
NoRun == [kind |-> "none", width |-> 0, height |-> 0, seed |-> 0,
          emitted |-> <<>>, hist |-> <<>>]
NoRuns == [hist |-> <<>>, first |-> NoRun, cmd |-> NoFlags]
NoSummary == [printed |-> FALSE, calculated |-> 0, y |-> 0, x |-> 0,
              seedflag |-> [f |-> "", seed |-> 0], s |-> 0, n |-> 0]
NoFirst == [ran |-> FALSE, displays |-> <<>>, hist |-> <<>>, summary |-> NoSummary]
NoSim == [i |-> 0, maxgen |-> 0, displays |-> <<>>, summary |-> NoSummary,
          cmd |-> NoFlags, first |-> NoFirst]
NoRps == [pc |-> "none"]
NoArmy == [pc |-> "none"]

InitField ==
    /\ sim = NoSim
    /\ rps = NoRps
    /\ army = NoArmy
    /\ field \in AllFields
    /\ call = Idle(field)
    /\ file = NoFile
    /\ columnOffset = 0
    /\ flp = NoResult
    /\ trace = <<>>
    /\ ppc = "start"
    /\ flags = NoFlags
    /\ seeder = NoProvider
    /\ heap = NoHeap
    /\ life = NoLife
    /\ emitted = <<>>
    /\ op = "start"
    /\ pc = "main"
    /\ shown = <<>>
    /\ rng = NoRng
    /\ runs = NoRuns

\* f.set(loc, b) with loc within one cell of the field on every side
CallSet ==
    /\ call.op = "idle"
    /\ \E x \in (-1)..field.width, y \in (-1)..field.height, b \in BOOLEAN :
          LET loc == NewFieldLocation(x, y) IN
          IF setPanics(field, loc)
          THEN /\ call' = [op |-> "set", x |-> x, y |-> y, b |-> b, panic |-> TRUE,
                           ret |-> FALSE, n |-> 0, before |-> field]
               /\ field' = field
          ELSE /\ call' = [op |-> "set", x |-> x, y |-> y, b |-> b, panic |-> FALSE,
                           ret |-> FALSE, n |-> 0, before |-> field]
               /\ field' = set(field, loc, b)
    /\ UNCHANGED <<parseVars, columnOffset, lifeVars, runVars>>
    /\ UNCHANGED <<sim, puzzleVars>>

\* f.alive(x, y) with x, y from below -width to above width
CallAlive ==
    /\ call.op = "idle"
    /\ \E x \in (-(field.width + 1))..(field.width + 1),
          y \in (-(field.height + 1))..(field.height + 1) :
          /\ call' = [op |-> "alive", x |-> x, y |-> y, b |-> FALSE,
                      panic |-> alivePanics(field, x, y),
                      ret |-> IF alivePanics(field, x, y) THEN FALSE
                              ELSE alive(field, x, y),
                      n |-> 0, before |-> field]
          /\ field' = field
    /\ UNCHANGED <<parseVars, columnOffset, lifeVars, runVars>>
    /\ UNCHANGED <<sim, puzzleVars>>

\* f.next(x, y) on a cell of the field, as prepareNextGeneration calls it
CallNext ==
    /\ call.op = "idle"
    /\ \E x \in 0..(field.width - 1), y \in 0..(field.height - 1) :
          /\ call' = [op |-> "next", x |-> x, y |-> y, b |-> FALSE,
                      panic |-> nextPanics(field, x, y),
                      ret |-> IF nextPanics(field, x, y) THEN FALSE
                              ELSE next(field, x, y),
                      n |-> IF nextPanics(field, x, y) THEN 0
                            ELSE neighbors(field, x, y),
                      before |-> field]
          /\ field' = field
    /\ UNCHANGED <<parseVars, columnOffset, lifeVars, runVars>>
    /\ UNCHANGED <<sim, puzzleVars>>

\* the call returns to its caller
CallReturn ==
    /\ call.op # "idle"
    /\ ~call.panic
    /\ call' = Idle(field)
    /\ field' = field
    /\ UNCHANGED <<parseVars, columnOffset, lifeVars, runVars>>
    /\ UNCHANGED <<sim, puzzleVars>>

NextField == CallSet \/ CallAlive \/ CallNext \/ CallReturn

----------------------------------------------------------------------------
(* Strings: a Go string is modelled as the sequence of its characters.     *)

Digits == {"0", "1", "2", "3", "4", "5", "6", "7", "8", "9"}

DigitVal(c) ==
    CASE c = "0" -> 0 [] c = "1" -> 1 [] c = "2" -> 2 [] c = "3" -> 3
      [] c = "4" -> 4 [] c = "5" -> 5 [] c = "6" -> 6 [] c = "7" -> 7
      [] c = "8" -> 8 [] c = "9" -> 9

\* unicode.IsSpace, restricted to the white space of the modelled alphabet
IsSpace(c) == c \in {" ", "\t"}

\* strings.HasPrefix(s, c) for a one-character prefix
HasPrefix(s, c) == Len(s) >= 1 /\ s[1] = c

\* strings.Contains(s, c) for a one-character substring
Contains(s, c) == \E i \in 1..Len(s) : s[i] = c

\* index of the first occurrence of c in s (s contains c)
Index(s, c) == CHOOSE i \in 1..Len(s) : s[i] = c /\ \A j \in 1..(i - 1) : s[j] # c

RECURSIVE Split(_, _)
\* strings.Split(s, sep) for a one-character separator
Split(s, sep) ==
    IF ~Contains(s, sep) THEN <<s>>
    ELSE <<SubSeq(s, 1, Index(s, sep) - 1)>>
            \o Split(SubSeq(s, Index(s, sep) + 1, Len(s)), sep)

RECURSIVE TrimRightSpace(_)
\* strings.TrimRightFunc(s, unicode.IsSpace)
TrimRightSpace(s) ==
    IF Len(s) > 0 /\ IsSpace(s[Len(s)]) THEN TrimRightSpace(SubSeq(s, 1, Len(s) - 1))
    ELSE s

RECURSIVE DigitsVal(_)
DigitsVal(s) ==
    IF Len(s) = 0 THEN 0
    ELSE DigitsVal(SubSeq(s, 1, Len(s) - 1)) * 10 + DigitVal(s[Len(s)])

\* strconv.Atoi: an optional sign followed by one or more decimal digits;
\* on a syntax error the value is 0.
AtoiSigned(neg, body) ==
    IF Len(body) = 0 \/ \E i \in 1..Len(body) : body[i] \notin Digits
    THEN [err |-> TRUE, val |-> 0]
    ELSE [err |-> FALSE, val |-> IF neg THEN -DigitsVal(body) ELSE DigitsVal(body)]

Atoi(s) ==
    IF Len(s) > 0 /\ s[1] \in {"+", "-"} THEN AtoiSigned(s[1] = "-", Tail(s))
    ELSE AtoiSigned(FALSE, s)

----------------------------------------------------------------------------
(* The field definition file parser (part_004:43-164) *)

ignorable(configline) == HasPrefix(configline, "#") \/ ~Contains(configline, ":")

RECURSIVE settingsFrom(_, _)
settingsFrom(settings, x) ==
    IF x >= Len(settings) THEN <<>>
    ELSE (IF settings[x + 1] # " " THEN <<x>> ELSE <<>>) \o settingsFrom(settings, x + 1)

\* the 0-based positions of the marks that are not a space
parseConfigLineSettings(settings) == settingsFrom(settings, 0)

\* co is the package variable columnOffset when the call is made
toFieldLocations(cols, y, co) ==
    [i \in 1..Len(cols) |-> NewFieldLocation(cols[i] + co, y)]

\* parseOffset without the test co >= 0
parseOffsetMutantNoRange(co, lastRow, columnOffset0) ==
    [locs |-> <<>>, row |-> lastRow,
     columnOffset |-> IF ~co.err THEN co.val ELSE columnOffset0]

\* parseOffset setting columnOffset to 0 when the operand is not accepted
parseOffsetMutantResetOnError(co, lastRow, columnOffset0) ==
    [locs |-> <<>>, row |-> lastRow,
     columnOffset |-> IF ~co.err /\ co.val >= 0 THEN co.val ELSE 0]

\* the branch header == ">>" of parseConfigLine: co is strconv.Atoi(settings),
\* columnOffset0 the package variable before the line
parseOffset(co, lastRow, columnOffset0) ==
    [locs |-> <<>>, row |-> lastRow,
     columnOffset |-> IF ~co.err /\ co.val >= 0 THEN co.val ELSE columnOffset0]

\* parseRow returning lastRow, not y, for a line without marks
parseRowMutantKeepRow(relative, y0, cols, lastRow, co) ==
    IF ~relative /\ y0.err
    THEN [locs |-> <<>>, row |-> lastRow, columnOffset |-> co]
    ELSE IF Len(cols) = 0
    THEN [locs |-> <<>>, row |-> lastRow, columnOffset |-> co]
    ELSE [locs |-> toFieldLocations(cols, IF relative THEN lastRow + 1 ELSE y0.val, co),
          row |-> IF relative THEN lastRow + 1 ELSE y0.val,
          columnOffset |-> co]

\* parseRow returning y, not lastRow, when the header is not a number
parseRowMutantErrRow(relative, y0, cols, lastRow, co) ==
    IF ~relative /\ y0.err
    THEN [locs |-> <<>>, row |-> y0.val, columnOffset |-> co]
    ELSE IF Len(cols) = 0
    THEN [locs |-> <<>>, row |-> IF relative THEN lastRow + 1 ELSE y0.val,
          columnOffset |-> co]
    ELSE [locs |-> toFieldLocations(cols, IF relative THEN lastRow + 1 ELSE y0.val, co),
          row |-> IF relative THEN lastRow + 1 ELSE y0.val,
          columnOffset |-> co]

\* parseRow never placing an absolute row above the last row
parseRowMutantMonotone(relative, y0, cols, lastRow, co) ==
    IF ~relative /\ y0.err
    THEN [locs |-> <<>>, row |-> lastRow, columnOffset |-> co]
    ELSE IF Len(cols) = 0
    THEN [locs |-> <<>>, row |-> IF relative THEN lastRow + 1 ELSE max(lastRow, y0.val),
          columnOffset |-> co]
    ELSE [locs |-> toFieldLocations(cols, IF relative THEN lastRow + 1
                                          ELSE max(lastRow, y0.val), co),
          row |-> IF relative THEN lastRow + 1 ELSE max(lastRow, y0.val),
          columnOffset |-> co]

\* the rest of parseConfigLine: relative is header == "++", y0 is
\* strconv.Atoi(header), cols is parseConfigLineSettings(settings)
parseRow(relative, y0, cols, lastRow, co) ==
    IF ~relative /\ y0.err
    THEN [locs |-> <<>>, row |-> lastRow, columnOffset |-> co]
    ELSE IF Len(cols) = 0
    THEN [locs |-> <<>>, row |-> IF relative THEN lastRow + 1 ELSE y0.val,
          columnOffset |-> co]
    ELSE [locs |-> toFieldLocations(cols, IF relative THEN lastRow + 1 ELSE y0.val, co),
          row |-> IF relative THEN lastRow + 1 ELSE y0.val,
          columnOffset |-> co]

\* parseConfigLine once the line is split: header is parts[0], settings is
\* parts[1] without its trailing white space
parseHeaderSettings(header, settings, lastRow, co) ==
    IF header = <<">", ">">> THEN parseOffset(Atoi(settings), lastRow, co)
    ELSE parseRow(header = <<"+", "+">>, Atoi(header),
                  parseConfigLineSettings(settings), lastRow, co)

\* strings.Split(configline, ":") of a line that contains ':'
splitParts(parts, lastRow, co) ==
    parseHeaderSettings(parts[1], TrimRightSpace(parts[2]), lastRow, co)

\* parseConfigLine(configline, lastRow) with the package variable columnOffset
\* passed in as co and its value after the call passed out.
parseConfigLine(configline, lastRow, co) ==
    IF ignorable(configline) THEN [locs |-> <<>>, row |-> lastRow, columnOffset |-> co]
    ELSE splitParts(Split(configline, ":"), lastRow, co)

RECURSIVE maxColFrom(_, _, _)
maxColFrom(x, locs, i) ==
    IF i > Len(locs) THEN x
    ELSE maxColFrom(IF locs[i].X > x THEN locs[i].X ELSE x, locs, i + 1)

maxCol(x, locs) == maxColFrom(x, locs, 1)

\* parseRound with row = lastrow done only when the line gave locations
parseRoundMutantRowWithLocs(st, line, r, locs) ==
    [locs |-> locs,
     minX |-> maxCol(st.minX, locs),
     minY |-> max(st.minY, r.row),
     row  |-> IF Len(r.locs) # 0 THEN r.row ELSE st.row,
     columnOffset |-> r.columnOffset,
     trace |-> Append(st.trace,
                 [line |-> line, lastRow |-> st.row,
                  offsetIn |-> st.columnOffset, locs |-> r.locs,
                  row |-> r.row, offsetOut |-> r.columnOffset])]

\* one round of the loop of NewFileLocationProvider: r is what
\* parseConfigLine returned for line, locs the slice locs after the append
parseRound(st, line, r, locs) ==
    [locs |-> locs,
     minX |-> maxCol(st.minX, locs),
     minY |-> max(st.minY, r.row),
     row  |-> r.row,
     columnOffset |-> r.columnOffset,
     trace |-> Append(st.trace,
                 [line |-> line, lastRow |-> st.row,
                  offsetIn |-> st.columnOffset, locs |-> r.locs,
                  row |-> r.row, offsetOut |-> r.columnOffset])]

parseAppend(st, line, r) ==
    parseRound(st, line, r, IF Len(r.locs) # 0 THEN st.locs \o r.locs ELSE st.locs)

RECURSIVE parseLoop(_, _, _)
\* the loop of NewFileLocationProvider over lines[k..]; st holds its local
\* variables locs, minX, minY, row, the package variable columnOffset, and
\* one record per parseConfigLine call made so far.
parseLoop(lines, k, st) ==
    IF k > Len(lines) THEN st
    ELSE parseLoop(lines, k + 1,
            parseAppend(st, lines[k],
                        parseConfigLine(lines[k], st.row, st.columnOffset)))

\* the nil *FileLocationProvider / an absent provider
NilProvider == NoProvider

\* return &FileLocationProvider{...}, nil: st holds the loop's variables
newProvider(st) ==
    [err |-> "nil",
     provider |-> [kind |-> "file", i |-> 0, width |-> st.minX + 1,
                   height |-> st.minY + 1, locs |-> st.locs],
     columnOffset |-> st.columnOffset,
     trace |-> st.trace]

\* readLines returning nil for scanner.Err()
readLinesMutantNoScanErr(f) ==
    IF ~f.exists THEN [lines |-> <<>>, err |-> TRUE]
    ELSE [lines |-> f.lines, err |-> FALSE]

\* readLines(path): f is the file at path. os.Open fails when f.exists is
\* FALSE; f.lines are the lines the scanner delivers and f.scanErr tells
\* whether scanner.Err() is an error once it stops (a failed read, a line
\* longer than the scanner's buffer).
readLines(f) ==
    IF ~f.exists THEN [lines |-> <<>>, err |-> TRUE]
    ELSE [lines |-> f.lines, err |-> f.scanErr]

\* NewFileLocationProvider(path): f is the file at path, co the package
\* variable columnOffset at the call.
NewFileLocationProvider(f, co) ==
    IF readLines(f).err
    THEN [err |-> "read", provider |-> NilProvider, columnOffset |-> co, trace |-> <<>>]
    ELSE IF Len(readLines(f).lines) = 0
    THEN [err |-> "empty", provider |-> NilProvider, columnOffset |-> co, trace |-> <<>>]
    ELSE newProvider(parseLoop(readLines(f).lines, 1,
                        [locs |-> <<>>, minX |-> 0, minY |-> 0, row |-> 0,
                         columnOffset |-> co, trace |-> <<>>]))

----------------------------------------------------------------------------
(* SpecParse: NewFileLocationProvider on a seed file. The files are the    *)
(* unreadable file, every file of up to MaxLines of ExampleLines, and every *)
(* one-line file over Alphabet of up to MaxLineLen characters, alone or    *)
(* after a column offset line.                                             *)

Alphabet == {"#", ":", ">", "+", "1", "@", " "}

LineOffset5 == <<">", ">", ":", "5">>
Line01      == <<"0", "1", ":", "@", " ", "@">>
LineRel     == <<"+", "+", ":", " ", "@", " ">>
Line05      == <<"0", "5", ":", "@">>
LineRelNone == <<"+", "+", ":">>
LineRelOne  == <<"+", "+", ":", "@">>

ExampleLines ==
    { <<"#", "1", ":", "@">>,              \* comment
      <<"b", "a", "d">>,                   \* no colon
      <<"x", ":", "@">>,                   \* header neither >>, ++ nor a number
      LineOffset5,
      <<">", ">", ":", "0">>,
      <<">", ">", ":", "x">>,
      <<">", ">", ":", "-", "1">>,
      <<">", ">", ":", "2", " ">>,
      <<">", ">", ":", "2", ":", "@">>,
      Line01, Line05, LineRel, LineRelNone, LineRelOne,
      <<"0", "1", ":", "@">>,
      <<"1", ":", " ", " ">>,              \* no marks
      <<"1", ":", "@", ":", "@">>,         \* a second colon
      <<"-", "1", ":", "@">> }             \* negative row

Strings == UNION {[1..n -> Alphabet] : n \in 0..MaxLineLen}

SeedLines ==
    UNION {[1..n -> ExampleLines] : n \in 0..MaxLines}
      \cup {<<s>> : s \in Strings}
      \cup {<<LineOffset5, s>> : s \in Strings}

\* the files whose scan stops on an error, after no line or after one
ScanErrLines == {<<>>} \cup {<<s>> : s \in ExampleLines}

SeedFiles ==
    {[exists |-> FALSE, scanErr |-> FALSE, lines |-> <<>>]}
      \cup {[exists |-> TRUE, scanErr |-> FALSE, lines |-> ls] : ls \in SeedLines}
      \cup {[exists |-> TRUE, scanErr |-> TRUE, lines |-> ls] : ls \in ScanErrLines}

InitParse ==
    /\ sim = NoSim
    /\ rps = NoRps
    /\ army = NoArmy
    /\ file \in SeedFiles
    /\ columnOffset = 0
    /\ flp = NoResult
    /\ trace = <<>>
    /\ ppc = "start"
    /\ field = NoField
    /\ call = Idle(NoField)
    /\ flags = NoFlags
    /\ seeder = NoProvider
    /\ heap = NoHeap
    /\ life = NoLife
    /\ emitted = <<>>
    /\ op = "start"
    /\ pc = "main"
    /\ shown = <<>>
    /\ rng = NoRng
    /\ runs = NoRuns

\* flp, err := NewFileLocationProvider(path)
ParseFile ==
    /\ ppc = "start"
    /\ \E r \in {NewFileLocationProvider(file, columnOffset)} :
          /\ flp' = [err |-> r.err, provider |-> r.provider]
          /\ columnOffset' = r.columnOffset
          /\ trace' = r.trace
          /\ ppc' = IF r.err = "nil" THEN "built" ELSE "error"
    /\ file' = file
    /\ UNCHANGED <<fieldVars, lifeVars, runVars>>
    /\ UNCHANGED <<sim, puzzleVars>>

NextParse == ParseFile

----------------------------------------------------------------------------
(* Population sources (life.go:285-376, part_004:13-41) *)

NewRandomLocationProvider(w, h) ==
    [kind |-> "random", i |-> 0, width |-> w, height |-> h, locs |-> <<>>]

\* MoreLocations with <= where the code has <
MoreLocationsMutantOneMore(p) ==
    IF p.kind = "random" THEN p.i <= GoDiv(p.width * p.height, 4)
    ELSE p.i <= Len(p.locs)

\* LocationProvider.MoreLocations() of either provider
MoreLocations(p) ==
    IF p.kind = "random" THEN p.i < GoDiv(p.width * p.height, 4)
    ELSE p.i < Len(p.locs)

\* LocationProvider.NextLocation() panics: rand.Intn(n) on n <= 0, or
\* f.locs[f.i] past the end of the slice.
NextLocationPanics(p) ==
    IF p.kind = "random" THEN p.width <= 0 \/ p.height <= 0
    ELSE p.i >= Len(p.locs)

\* the locations rand.Intn(width), rand.Intn(height) can produce
RandomLocations(p) ==
    {NewFieldLocation(x, y) : x \in 0..(p.width - 1), y \in 0..(p.height - 1)}

\* NextLocation reading f.locs[0] whatever f.i is
NextLocationMutantFirst(p, draw) ==
    [provider |-> [p EXCEPT !.i = p.i + 1],
     loc |-> IF p.kind = "random" THEN draw ELSE p.locs[1]]

\* LocationProvider.NextLocation(): the provider afterwards and the location;
\* draw is what the random generator produces for this call.
NextLocation(p, draw) ==
    [provider |-> [p EXCEPT !.i = p.i + 1],
     loc |-> IF p.kind = "random" THEN draw ELSE p.locs[p.i + 1]]

MinimumBounds(p) == <<p.width, p.height>>

\* assertMoreLocations without its test
assertMoreLocationsMutantNone(s) == FALSE

\* Seeder.assertMoreLocations(): TRUE when it calls log.Fatal
assertMoreLocations(s) == ~MoreLocations(s)

\* Seeder.nextLocation(): fatal, panic, or the next location
nextLocation(s, draw) ==
    IF assertMoreLocations(s)
    THEN [status |-> "fatal", provider |-> s, loc |-> NewFieldLocation(0, 0)]
    ELSE IF NextLocationPanics(s)
    THEN [status |-> "panic", provider |-> s, loc |-> NewFieldLocation(0, 0)]
    ELSE [status |-> "ok", provider |-> NextLocation(s, draw).provider,
          loc |-> NextLocation(s, draw).loc]

\* moreLocations false from the last location on
moreLocationsMutantStopEarly(s) == MoreLocations([s EXCEPT !.i = s.i + 1])

moreLocations(s) == MoreLocations(s)

----------------------------------------------------------------------------
(* SpecProvider: one process that builds a FileLocationProvider, walks it  *)
(* with the MoreLocations()/NextLocation() loop, and may call              *)
(* NewFileLocationProvider a second time. The package variable             *)
(* columnOffset (part_004:93) lives as long as the process.                *)

ProviderLines ==
    {LineOffset5, <<">", ">", ":", "0">>, Line01, LineRel, LineRelOne,
     <<"b", "a", "d">>}

ProviderFiles ==
    {[exists |-> FALSE, scanErr |-> FALSE, lines |-> <<>>]}
      \cup {[exists |-> TRUE, scanErr |-> FALSE, lines |-> ls] :
                ls \in UNION {[1..n -> ProviderLines] : n \in 0..MaxLines}}

\* the files of the second call
AgainFiles ==
    {[exists |-> TRUE, scanErr |-> FALSE, lines |-> ls] :
        ls \in UNION {[1..n -> ProviderLines] : n \in 1..(MaxLines - 1)}}

InitProvider ==
    /\ sim = NoSim
    /\ rps = NoRps
    /\ army = NoArmy
    /\ file \in ProviderFiles
    /\ columnOffset = 0
    /\ flp = NoResult
    /\ trace = <<>>
    /\ ppc = "start"
    /\ emitted = <<>>
    /\ field = NoField
    /\ call = Idle(NoField)
    /\ flags = NoFlags
    /\ seeder = NoProvider
    /\ heap = NoHeap
    /\ life = NoLife
    /\ op = "start"
    /\ pc = "main"
    /\ shown = <<>>
    /\ rng = NoRng
    /\ runs = NoRuns

\* for flp.MoreLocations() { loc := flp.NextLocation() }: one round
ProviderNextLocation ==
    /\ ppc \in {"built", "again"}
    /\ MoreLocations(flp.provider)
    /\ \E r \in {NextLocation(flp.provider, NewFieldLocation(0, 0))} :
          /\ flp' = [flp EXCEPT !.provider = r.provider]
          /\ emitted' = Append(emitted, r.loc)
    /\ UNCHANGED <<file, trace, ppc, columnOffset>>
    /\ UNCHANGED <<fieldVars, flags, seeder, heap, life, op, pc, runVars>>
    /\ UNCHANGED <<sim, puzzleVars>>

\* a second flp, err := NewFileLocationProvider(path) in the same process
ParseAgain ==
    /\ ppc \in {"built", "error"}
    /\ emitted = <<>>
    /\ \E f \in AgainFiles :
          \E r \in {NewFileLocationProvider(f, columnOffset)} :
          /\ file' = f
          /\ flp' = [err |-> r.err, provider |-> r.provider]
          /\ columnOffset' = r.columnOffset
          /\ trace' = r.trace
          /\ ppc' = IF r.err = "nil" THEN "again" ELSE "error2"
    /\ UNCHANGED <<fieldVars, lifeVars, runVars>>
    /\ UNCHANGED <<sim, puzzleVars>>

NextProvider == ParseFile \/ ProviderNextLocation \/ ParseAgain

----------------------------------------------------------------------------
(* Life (life.go:438-473) *)

Draw(draws, i) == IF i <= Len(draws) THEN draws[i] ELSE NewFieldLocation(0, 0)

RECURSIVE drain(_, _, _, _)
RECURSIVE drainSet(_, _, _, _)
\* for seeder.moreLocations() { firstGen.set(seeder.nextLocation(), true) }
\* s is the seeder's provider, f the field firstGen, draws what the random
\* generator produces call by call, out the locations returned so far.
drain(s, f, draws, out) ==
    IF ~moreLocations(s)
    THEN [status |-> "ok", provider |-> s, field |-> f, emitted |-> out]
    ELSE drainSet(nextLocation(s, Draw(draws, s.i + 1)), f, draws, out)

\* firstGen.set(r, true) for the outcome r of seeder.nextLocation(), and on
drainSet(r, f, draws, out) ==
    IF r.status # "ok"
    THEN [status |-> r.status, provider |-> r.provider, field |-> f, emitted |-> out]
    ELSE IF setPanics(f, r.loc)
    THEN [status |-> "panic", provider |-> r.provider, field |-> f,
          emitted |-> Append(out, r.loc)]
    ELSE drain(r.provider, set(f, r.loc, TRUE), draws, Append(out, r.loc))

\* NewLife returning a Life whose nextGen is the buffer firstGen
newLifeOfMutantOneBuffer(w, h, d) ==
    [status |-> d.status, provider |-> d.provider, emitted |-> d.emitted,
     heap |-> [a \in {"A", "B"} |-> IF a = "A" THEN d.field ELSE NewField(w, h)],
     life |-> [thisGen |-> "A", nextGen |-> "A", width |-> w, height |-> h,
               genCount |-> 0]]

\* return &Life{thisGen: firstGen, nextGen: NewField(w, h), width: w, height: h}
\* d is the outcome of the seeding loop
newLifeOf(w, h, d) ==
    [status |-> d.status, provider |-> d.provider, emitted |-> d.emitted,
     heap |-> [a \in {"A", "B"} |-> IF a = "A" THEN d.field ELSE NewField(w, h)],
     life |-> [thisGen |-> "A", nextGen |-> "B", width |-> w, height |-> h,
               genCount |-> 0]]

\* NewLife(w, h) with the package variable seeder holding provider s
NewLife(w, h, s, draws) ==
    IF NewFieldPanics(w, h)
    THEN [status |-> "panic", provider |-> s, emitted |-> <<>>,
          heap |-> NoHeap, life |-> NoLife]
    ELSE newLifeOf(w, h, drain(s, NewField(w, h), draws, <<>>))

RECURSIVE prepareFrom(_, _, _)
\* the loops of prepareNextGeneration from cell number k on (row by row)
prepareFrom(hp, l, k) ==
    IF l.width <= 0 \/ l.height <= 0 \/ k >= l.width * l.height THEN hp
    ELSE LET x == k % l.width
             y == k \div l.width
         IN  prepareFrom([hp EXCEPT ![l.nextGen] =
                             set(hp[l.nextGen], NewFieldLocation(x, y),
                                 next(hp[l.thisGen], x, y))],
                         l, k + 1)

\* prepareNextGeneration writing into thisGen, the buffer it reads
prepareNextGenerationMutantInPlace(hp, l) ==
    prepareFrom(hp, [l EXCEPT !.nextGen = l.thisGen], 0)

\* Life.prepareNextGeneration(): the heap afterwards
prepareNextGeneration(hp, l) == prepareFrom(hp, l, 0)

\* the bytes of deadcell and of livecell (a space, then the icon)
deadcell == <<" ", " ">>
livecell == <<" ", "icon">>

RECURSIVE StringFrom(_, _, _, _)
\* the loops of Life.String() from cell number k on: buf afterwards
StringFrom(f, l, k, buf) ==
    IF l.height <= 0 \/ k >= max(l.width, 0) * l.height + l.height THEN buf
    ELSE IF k % (max(l.width, 0) + 1) = max(l.width, 0)
    THEN StringFrom(f, l, k + 1, Append(buf, "\n"))
    ELSE StringFrom(f, l, k + 1,
            buf \o (IF alive(f, k % (l.width + 1), k \div (l.width + 1))
                    THEN livecell ELSE deadcell))

\* Life.String() reading the buffer nextGen
StringMutantNextGen(hp, l) == StringFrom(hp[l.nextGen], l, 0, <<>>)

\* Life.String()
String(hp, l) == StringFrom(hp[l.thisGen], l, 0, <<>>)

\* instateNextGeneration without l.genCount++
instateNextGenerationMutantNoCount(l) ==
    [l EXCEPT !.thisGen = l.nextGen, !.nextGen = l.thisGen]

\* instateNextGeneration without the exchange of the two buffers
instateNextGenerationMutantNoSwap(l) ==
    [l EXCEPT !.genCount = l.genCount + 1]

\* Life.instateNextGeneration()
instateNextGeneration(l) ==
    [l EXCEPT !.thisGen = l.nextGen, !.nextGen = l.thisGen, !.genCount = l.genCount + 1]

----------------------------------------------------------------------------
(* main: flags, initSeed (life.go:539-562, 655-667) *)

\* the files a -f option can name: what readLines finds at each path
FS(path) ==
    CASE path = "missing" -> [exists |-> FALSE, scanErr |-> FALSE, lines |-> <<>>]
      [] path = "empty"   -> [exists |-> TRUE, scanErr |-> FALSE, lines |-> <<>>]
      [] path = "blinker" -> [exists |-> TRUE, scanErr |-> FALSE,
                              lines |-> << <<"#", " ", "b">>,
                                           <<"1", ":", "@", "@", "@">> >>]
      [] path = "corner"  -> [exists |-> TRUE, scanErr |-> FALSE,
                              lines |-> << LineOffset5, Line01, LineRel,
                                           <<">", ">", ":", "0">>, LineRelOne >>]
      [] path = "glider"  -> [exists |-> TRUE, scanErr |-> FALSE,
                              lines |-> << <<"0", ":", " ", "@">>,
                                           <<"+", "+", ":", " ", " ", "@">>,
                                           <<"+", "+", ":", "@", "@", "@">>,
                                           <<"5", ":", " ", " ", " ", " ", " ", "@">> >>]
      [] path = "negrow"  -> [exists |-> TRUE, scanErr |-> FALSE,
                              lines |-> << <<"-", "1", ":", "@">> >>]
      [] path = "hline"   -> [exists |-> TRUE, scanErr |-> FALSE,
                              lines |-> << <<"2", ":", " ", "@", "@", "@">> >>]
      [] path = "block11" -> [exists |-> TRUE, scanErr |-> FALSE,
                              lines |-> << <<"1", ":", " ", "@", "@">>,
                                           <<"+", "+", ":", " ", "@", "@">> >>]
      [] path = "block31" -> [exists |-> TRUE, scanErr |-> FALSE,
                              lines |-> << <<"1", ":", "@", " ", " ", "@">>,
                                           <<"+", "+", ":", "@", " ", " ", "@">> >>]
      [] path = "block13" -> [exists |-> TRUE, scanErr |-> FALSE,
                              lines |-> << <<"0", ":", " ", "@", "@">>,
                                           <<"3", ":", " ", "@", "@">> >>]
      [] path = "block33" -> [exists |-> TRUE, scanErr |-> FALSE,
                              lines |-> << <<"0", ":", "@", " ", " ", "@">>,
                                           <<"3", ":", "@", " ", " ", "@">> >>]

Paths == {"", "missing", "empty", "blinker", "corner", "glider", "negrow"}

FlagDims == {d \in ((-1)..MaxDim) \X ((-1)..MaxDim) : d[1] * d[2] <= MaxCells}

\* the values of the -seed flag (0: not given) and the two values
\* time.Now().UnixNano() takes, one for an earlier and one for a later start
Seeds == 0..MaxSeed
Times == {1, MaxSeed}

\* command lines that put a pattern file on a field larger than the file needs
PatternSettings ==
    {[fieldWidth |-> d[1], fieldHeight |-> d[2], initPath |-> "hline", seed |-> 0,
      gens |-> 20, gensPerSec |-> 5, startGen |-> 0] : d \in (5..6) \X (5..6)}
      \cup {[fieldWidth |-> d[1], fieldHeight |-> d[2], initPath |-> "block11",
              seed |-> 0, gens |-> 20, gensPerSec |-> 5, startGen |-> 0] :
                d \in (4..5) \X (4..5)}
      \cup {[fieldWidth |-> 4, fieldHeight |-> 4, initPath |-> p, seed |-> 0,
              gens |-> 20, gensPerSec |-> 5, startGen |-> 0] :
                p \in {"block31", "block13", "block33"}}

FlagSettings ==
    {[fieldWidth |-> d[1], fieldHeight |-> d[2], initPath |-> p, seed |-> sd,
      gens |-> 20, gensPerSec |-> 5, startGen |-> 0] :
        d \in FlagDims, p \in Paths, sd \in Seeds}
      \cup PatternSettings

\* flp, err := NewFileLocationProvider(initPath) when -f is given
initSeedFile(fl, co) ==
    IF fl.initPath # "" THEN NewFileLocationProvider(FS(fl.initPath), co)
    ELSE [err |-> "none", provider |-> NilProvider, columnOffset |-> co]

\* initSeed without growing fieldWidth, fieldHeight to the minimum bounds
initSeedOfMutantNoGrow(fl, r) ==
    IF r.err = "nil"
    THEN [flags |-> fl, seeder |-> r.provider, columnOffset |-> r.columnOffset]
    ELSE [flags |-> fl,
          seeder |-> NewRandomLocationProvider(fl.fieldWidth, fl.fieldHeight),
          columnOffset |-> r.columnOffset]

\* initSeed taking the random source whatever NewFileLocationProvider returned
initSeedOfMutantRandomOnly(fl, r) ==
    [flags |-> fl,
     seeder |-> NewRandomLocationProvider(fl.fieldWidth, fl.fieldHeight),
     columnOffset |-> r.columnOffset]

\* the rest of initSeed: r is the outcome of NewFileLocationProvider
initSeedOf(fl, r) ==
    IF r.err = "nil"
    THEN [flags |-> [fl EXCEPT
                       !.fieldWidth = max(fl.fieldWidth, MinimumBounds(r.provider)[1]),
                       !.fieldHeight = max(fl.fieldHeight, MinimumBounds(r.provider)[2])],
          seeder |-> r.provider,
          columnOffset |-> r.columnOffset]
    ELSE [flags |-> fl,
          seeder |-> NewRandomLocationProvider(fl.fieldWidth, fl.fieldHeight),
          columnOffset |-> r.columnOffset]

\* initSeed(): the flag variables, the seeder's provider and columnOffset after it
initSeed(fl, co) == initSeedOf(fl, initSeedFile(fl, co))

\* the variable seed after initSeed: s is the provider initSeed chose, now
\* what time.Now().UnixNano() returns
initSeedRand(fl, s, now) ==
    IF s.kind = "file" THEN fl.seed
    ELSE IF fl.seed = 0 THEN now ELSE fl.seed

\* rand.Seed given the clock whatever -seed is
randSeedMutantClock(g, fl, s, now) ==
    IF s.kind = "file" THEN g ELSE [g EXCEPT !.seed = now]

\* rand.Seed(seed) in the fallback branch of initSeed: the generator afterwards
randSeed(g, fl, s, now) ==
    IF s.kind = "file" THEN g ELSE [g EXCEPT !.seed = initSeedRand(fl, s, now)]

InitLife ==
    /\ sim = NoSim
    /\ rps = NoRps
    /\ army = NoArmy
    /\ flags \in FlagSettings
    /\ seeder = NoProvider
    /\ columnOffset = 0
    /\ heap = NoHeap
    /\ life = NoLife
    /\ emitted = <<>>
    /\ op = "start"
    /\ pc = "main"
    /\ shown = <<>>
    /\ rng = NoRng
    /\ runs = NoRuns
    /\ field = NoField
    /\ call = Idle(NoField)
    /\ file = NoFile
    /\ flp = NoResult
    /\ trace = <<>>
    /\ ppc = "start"

\* initStartGen keeping startGen as given
initStartGenMutantNoDecr(s) == IF s > 1 THEN s ELSE 0

\* initStartGen(): the variable startGen afterwards
initStartGen(s) == IF s > 1 THEN s - 1 ELSE 0

\* processArgs(): flag.Parse() has set the flag variables; initSeed(),
\* initStartGen()
ProcessArgs ==
    /\ pc = "main"
    /\ \E now \in Times :
          \E r \in {initSeed(flags, columnOffset)} :
          /\ flags' = [r.flags EXCEPT !.seed = initSeedRand(flags, r.seeder, now),
                                      !.startGen = initStartGen(flags.startGen)]
          /\ seeder' = r.seeder
          /\ columnOffset' = r.columnOffset
          /\ rng' = randSeed(rng, flags, r.seeder, now)
    /\ op' = "processArgs"
    /\ pc' = "args"
    /\ UNCHANGED <<heap, life, emitted, shown, runs>>
    /\ UNCHANGED <<fieldVars, parseVars>>
    /\ UNCHANGED <<sim, puzzleVars>>

\* what the random generator may produce during one NewLife
DrawSeqs(s) ==
    IF s.kind = "random" /\ s.width > 0 /\ s.height > 0
    THEN [1..GoDiv(s.width * s.height, 4) -> RandomLocations(s)]
    ELSE {<<>>}

\* the sequences generator g has given for its seed and the ranges of s
Given(g, s) ==
    {m \in g.memo : m.seed = g.seed /\ m.width = s.width /\ m.height = s.height}

\* math/rand is a function of its seed: a generator seeded as an earlier one
\* gives the sequence that one gave
DrawsFor(g, s) ==
    IF Given(g, s) # {} THEN {m.draws : m \in Given(g, s)} ELSE DrawSeqs(s)

\* the generator after it has given draws to s, the first to consult it
\* since it was seeded
Drawn(g, s, draws) ==
    IF s.kind = "random" /\ s.width > 0 /\ s.height > 0 /\ s.i = 0
    THEN [g EXCEPT !.memo = g.memo \cup {[seed |-> g.seed, width |-> s.width,
                                           height |-> s.height, draws |-> draws]}]
    ELSE g

\* NewLife(fieldWidth, fieldHeight)
NewLifeCall ==
    /\ pc = "args"
    /\ \E draws \in DrawsFor(rng, seeder) :
          \E r \in {NewLife(flags.fieldWidth, flags.fieldHeight, seeder, draws)} :
          /\ seeder' = r.provider
          /\ emitted' = emitted \o r.emitted
          /\ heap' = r.heap
          /\ life' = r.life
          /\ pc' = IF r.status = "ok" THEN "life" ELSE r.status
          /\ rng' = Drawn(rng, seeder, draws)
          /\ runs' = [runs EXCEPT !.hist = IF r.status = "ok"
                                           THEN <<r.heap[r.life.thisGen]>> ELSE <<>>]
    /\ op' = "NewLife"
    /\ UNCHANGED <<flags, columnOffset, shown>>
    /\ UNCHANGED <<fieldVars, parseVars>>
    /\ UNCHANGED <<sim, puzzleVars>>

\* l.step()
Step ==
    /\ pc = "life"
    /\ life.genCount < MaxGens
    /\ heap' = prepareNextGeneration(heap, life)
    /\ life' = instateNextGeneration(life)
    /\ runs' = [runs EXCEPT !.hist = Append(runs.hist, heap'[life'.thisGen])]
    /\ op' = "step"
    /\ UNCHANGED <<flags, seeder, columnOffset, emitted, pc, shown, rng>>
    /\ UNCHANGED <<fieldVars, parseVars>>
    /\ UNCHANGED <<sim, puzzleVars>>

\* fmt.Printf("...%v", l): l.String(), as showCurrentGeneration calls it
Render ==
    /\ pc = "life"
    /\ shown' = String(heap, life)
    /\ op' = "String"
    /\ UNCHANGED <<flags, seeder, columnOffset, emitted, pc, heap, life, rng, runs>>
    /\ UNCHANGED <<fieldVars, parseVars>>
    /\ UNCHANGED <<sim, puzzleVars>>

\* a caller asks the seeder for a location: seeder.nextLocation()
SeederNextLocation ==
    /\ pc \in {"args", "life"}
    /\ \E draw \in (IF seeder.kind = "random" /\ seeder.width > 0 /\ seeder.height > 0
                    THEN RandomLocations(seeder) ELSE {NewFieldLocation(0, 0)}) :
          \E r \in {nextLocation(seeder, draw)} :
          /\ seeder' = r.provider
          /\ emitted' = IF r.status = "ok" THEN Append(emitted, r.loc) ELSE emitted
          /\ pc' = IF r.status = "ok" THEN pc ELSE r.status
    /\ op' = "nextLocation"
    /\ UNCHANGED <<flags, columnOffset, heap, life, runVars>>
    /\ UNCHANGED <<fieldVars, parseVars>>
    /\ UNCHANGED <<sim, puzzleVars>>

\* the command lines of SpecRerun: the random source on a field with cells
RerunSettings ==
    {fl \in FlagSettings :
        fl.initPath = "" /\ fl.fieldWidth > 0 /\ fl.fieldHeight > 0}

InitRerun ==
    /\ sim = NoSim
    /\ rps = NoRps
    /\ army = NoArmy
    /\ flags \in RerunSettings
    /\ runs = [hist |-> <<>>, first |-> NoRun, cmd |-> flags]
    /\ seeder = NoProvider
    /\ columnOffset = 0
    /\ heap = NoHeap
    /\ life = NoLife
    /\ emitted = <<>>
    /\ op = "start"
    /\ pc = "main"
    /\ shown = <<>>
    /\ rng = NoRng
    /\ field = NoField
    /\ call = Idle(NoField)
    /\ file = NoFile
    /\ flp = NoResult
    /\ trace = <<>>
    /\ ppc = "start"

\* the program has ended and is started again with the same command line:
\* every variable of the process is new; what the first run did is kept
Rerun ==
    /\ pc = "life"
    /\ life.genCount = MaxGens
    /\ runs.first = NoRun
    /\ runs' = [hist |-> <<>>, cmd |-> runs.cmd,
                first |-> [kind |-> seeder.kind, width |-> life.width,
                           height |-> life.height, seed |-> flags.seed,
                           emitted |-> emitted, hist |-> runs.hist]]
    /\ flags' = runs.cmd
    /\ rng' = [rng EXCEPT !.seed = 0]
    /\ seeder' = NoProvider
    /\ columnOffset' = 0
    /\ heap' = NoHeap
    /\ life' = NoLife
    /\ emitted' = <<>>
    /\ shown' = <<>>
    /\ op' = "start"
    /\ pc' = "main"
    /\ UNCHANGED <<fieldVars, parseVars>>
    /\ UNCHANGED <<sim, puzzleVars>>

----------------------------------------------------------------------------
(* simulate: stepThroughAll and the run summary (life.go:492-530) *)

\* the command lines of SpecSimulate: the random source and two pattern
\* files, with every -n and -s up to the bounds, and -r 0 or the default
SimSources ==
    {[fieldWidth |-> 2, fieldHeight |-> 2, initPath |-> "", seed |-> 0],
     [fieldWidth |-> 2, fieldHeight |-> 2, initPath |-> "", seed |-> 1],
     [fieldWidth |-> 1, fieldHeight |-> 1, initPath |-> "glider", seed |-> 0],
     [fieldWidth |-> 5, fieldHeight |-> 5, initPath |-> "hline", seed |-> 0]}

SimSettings ==
    {[fieldWidth |-> src.fieldWidth, fieldHeight |-> src.fieldHeight,
      initPath |-> src.initPath, seed |-> src.seed,
      gens |-> n, gensPerSec |-> r, startGen |-> st] :
        src \in SimSources, n \in (-1)..MaxShown, st \in (-1)..MaxStart, r \in {0, 5}}

InitSimulate ==
    /\ flags \in SimSettings
    /\ sim = [NoSim EXCEPT !.cmd = flags]
    /\ rps = NoRps
    /\ army = NoArmy
    /\ runs = NoRuns
    /\ seeder = NoProvider
    /\ columnOffset = 0
    /\ heap = NoHeap
    /\ life = NoLife
    /\ emitted = <<>>
    /\ op = "start"
    /\ pc = "main"
    /\ shown = <<>>
    /\ rng = NoRng
    /\ field = NoField
    /\ call = Idle(NoField)
    /\ file = NoFile
    /\ flp = NoResult
    /\ trace = <<>>
    /\ ppc = "start"

\* delay := time.Second / time.Duration(gensPerSec): an integer division,
\* which panics on a zero divisor
stepThroughAllPanics(fl) == fl.gensPerSec = 0

\* what showCurrentGeneration(nth) prints: the label, the position and the board
showCurrentGeneration(hp, l, nth, fl) ==
    [generation |-> l.genCount + 1, nth |-> nth - fl.startGen + 1,
     of |-> fl.gens, board |-> String(hp, l)]

\* the variable seedflag as initSeed left it: "-f " + initPath for the file
\* source, "-seed " + seed for the random one
seedflag(fl, s) ==
    IF s.kind = "file" THEN [f |-> fl.initPath, seed |-> 0]
    ELSE [f |-> "", seed |-> fl.seed]

\* what showRunInfo prints: the generations calculated and the command line
\* "To continue"
showRunInfo(l, fl, s) ==
    [printed |-> TRUE, calculated |-> l.genCount, y |-> l.height, x |-> l.width,
     seedflag |-> seedflag(fl, s), s |-> l.genCount, n |-> fl.gens]

\* simulate(gens) up to the loop of stepThroughAll: delay and maxgen
Simulate ==
    /\ pc = "life"
    /\ IF stepThroughAllPanics(flags)
       THEN /\ pc' = "panic"
            /\ sim' = sim
       ELSE /\ pc' = "loop"
            /\ sim' = [sim EXCEPT !.i = 0, !.maxgen = flags.gens + flags.startGen]
    /\ op' = "simulate"
    /\ UNCHANGED <<flags, seeder, columnOffset, emitted, heap, life, runVars>>
    /\ UNCHANGED <<fieldVars, parseVars, puzzleVars>>

\* one iteration of the loop of stepThroughAll: the display when
\* startGen <= i, then l.step()
LoopIteration ==
    /\ pc = "loop"
    /\ sim.i < sim.maxgen
    /\ sim' = [sim EXCEPT
                 !.i = sim.i + 1,
                 !.displays = IF flags.startGen <= sim.i
                              THEN Append(sim.displays,
                                          showCurrentGeneration(heap, life, sim.i, flags))
                              ELSE sim.displays]
    /\ heap' = prepareNextGeneration(heap, life)
    /\ life' = instateNextGeneration(life)
    /\ runs' = [runs EXCEPT !.hist = Append(runs.hist, heap'[life'.thisGen])]
    /\ op' = "step"
    /\ UNCHANGED <<flags, seeder, columnOffset, emitted, pc, shown, rng>>
    /\ UNCHANGED <<fieldVars, parseVars, puzzleVars>>

\* the loop of stepThroughAll has ended: l.showRunInfo(), and main returns
ShowRunInfo ==
    /\ pc = "loop"
    /\ sim.i >= sim.maxgen
    /\ sim' = [sim EXCEPT !.summary = showRunInfo(life, flags, seeder)]
    /\ pc' = "done"
    /\ op' = "showRunInfo"
    /\ UNCHANGED <<flags, seeder, columnOffset, emitted, heap, life, runVars>>
    /\ UNCHANGED <<fieldVars, parseVars, puzzleVars>>

\* the command line "To continue" of a summary, typed as printed (-r is not
\* part of it and takes its default)
ResumeFlags(sm) ==
    [fieldWidth |-> sm.x, fieldHeight |-> sm.y, initPath |-> sm.seedflag.f,
     seed |-> sm.seedflag.seed, gens |-> sm.n, gensPerSec |-> 5, startGen |-> sm.s]

\* the program has ended and is started with the command line of its
\* summary: every variable of the process is new; what the finished run
\* displayed and computed is kept
Resume ==
    /\ pc = "done"
    /\ ~sim.first.ran
    /\ flags' = ResumeFlags(sim.summary)
    /\ sim' = [NoSim EXCEPT !.cmd = ResumeFlags(sim.summary),
                            !.first = [ran |-> TRUE, displays |-> sim.displays,
                                       hist |-> runs.hist, summary |-> sim.summary]]
    /\ rng' = [rng EXCEPT !.seed = 0]
    /\ runs' = NoRuns
    /\ seeder' = NoProvider
    /\ columnOffset' = 0
    /\ heap' = NoHeap
    /\ life' = NoLife
    /\ emitted' = <<>>
    /\ shown' = <<>>
    /\ op' = "start"
    /\ pc' = "main"
    /\ UNCHANGED <<fieldVars, parseVars, puzzleVars>>

NextSimulate ==
    ProcessArgs \/ NewLifeCall \/ Simulate \/ LoopIteration \/ ShowRunInfo \/ Resume

NextLife == ProcessArgs \/ NewLifeCall \/ Step \/ Render

NextRerun == ProcessArgs \/ NewLifeCall \/ Step \/ Rerun

NextSeeder == ProcessArgs \/ NewLifeCall \/ SeederNextLocation

----------------------------------------------------------------------------
(* Rock-paper-scissors-lizard-Spock (rps.go) *)

ROCK == 0
SPOCK == 1
PAPER == 2
LIZARD == 3
SCISSORS == 4
LEN_Move == 5

Moves == ROCK..SCISSORS

pairings ==
    << [p1 |-> SCISSORS, p2 |-> PAPER, w |-> "cuts", l |-> "cut"],
       [p1 |-> PAPER, p2 |-> ROCK, w |-> "covers", l |-> "covered"],
       [p1 |-> ROCK, p2 |-> LIZARD, w |-> "crushes", l |-> "crushed"],
       [p1 |-> LIZARD, p2 |-> SPOCK, w |-> "poisons", l |-> "poisoned"],
       [p1 |-> SPOCK, p2 |-> SCISSORS, w |-> "smashes", l |-> "smashed"],
       [p1 |-> SCISSORS, p2 |-> LIZARD, w |-> "decapitates", l |-> "decapitated"],
       [p1 |-> LIZARD, p2 |-> PAPER, w |-> "eats", l |-> "eaten"],
       [p1 |-> PAPER, p2 |-> SPOCK, w |-> "disproves", l |-> "disproved"],
       [p1 |-> SPOCK, p2 |-> ROCK, w |-> "vaporizes", l |-> "vaporized"],
       [p1 |-> ROCK, p2 |-> SCISSORS, w |-> "crushes", l |-> "crushed"] >>

\* Move.String()
MoveString(m) == <<"Rock", "Spock", "Paper", "Lizard", "Scissors">>[m + 1]

\* MatchUp.WinResult(): the words of the line
WinResult(m) == <<MoveString(m.p1), m.w, MoveString(m.p2)>>

\* MatchUp.LoseResult()
LoseResult(m) ==
    <<MoveString(m.p2), IF m.p2 = SCISSORS THEN "are" ELSE "is", m.l, "by",
      MoveString(m.p1)>>

\* Beats with the bound 1 in place of 2
BeatsMutantOne(m1, m2) ==
    m1 # m2 /\ GoRem((m1 - m2) + LEN_Move, LEN_Move) <= 1

\* Move.Beats
Beats(m1, m2) ==
    m1 # m2 /\ GoRem((m1 - m2) + LEN_Move, LEN_Move) <= 2

RECURSIVE findMatchUpFrom(_, _, _)
\* the loop of findMatchUp from entry i of pairings on, and the error after it
findMatchUpFrom(p1, p2, i) ==
    IF i > Len(pairings)
    THEN [err |-> TRUE, matchUp |-> [p1 |-> p1, p2 |-> p2, w |-> "", l |-> ""]]
    ELSE IF \/ (pairings[i].p1 = p1 /\ pairings[i].p2 = p2)
            \/ (pairings[i].p1 = p2 /\ pairings[i].p2 = p1)
    THEN [err |-> FALSE, matchUp |-> pairings[i]]
    ELSE findMatchUpFrom(p1, p2, i + 1)

findMatchUp(p1, p2) ==
    IF p1 = p2
    THEN [err |-> FALSE, matchUp |-> [p1 |-> p1, p2 |-> p2, w |-> "ties", l |-> ""]]
    ELSE findMatchUpFrom(p1, p2, 1)

\* the rest of Versus: r is what findMatchUp returned; log.Fatal on an error
VersusOf(m1, m2, r) ==
    IF r.err THEN [m1 |-> m1, m2 |-> m2, fatal |-> TRUE, text |-> <<>>]
    ELSE IF m1 = m2 \/ Beats(m1, m2)
    THEN [m1 |-> m1, m2 |-> m2, fatal |-> FALSE, text |-> WinResult(r.matchUp)]
    ELSE [m1 |-> m1, m2 |-> m2, fatal |-> FALSE, text |-> LoseResult(r.matchUp)]

\* Move.Versus: the line it returns, or the fatal exit
Versus(m1, m2) == VersusOf(m1, m2, findMatchUp(m1, m2))

NoLine == [m1 |-> 0, m2 |-> 0, fatal |-> FALSE, text |-> <<>>]

\* main() of rps.go at its first statement
InitRps ==
    /\ rps = [pc |-> "all", p1 |-> ROCK, p2 |-> ROCK, i |-> 0, out |-> NoLine]
    /\ army = NoArmy
    /\ sim = NoSim
    /\ field = NoField
    /\ call = Idle(NoField)
    /\ file = NoFile
    /\ columnOffset = 0
    /\ flp = NoResult
    /\ trace = <<>>
    /\ ppc = "start"
    /\ flags = NoFlags
    /\ seeder = NoProvider
    /\ heap = NoHeap
    /\ life = NoLife
    /\ emitted = <<>>
    /\ op = "start"
    /\ pc = "main"
    /\ shown = <<>>
    /\ rng = NoRng
    /\ runs = NoRuns

\* the program after printing line: it has exited if Versus was fatal
Printed(line, after) ==
    IF line.fatal THEN [rps EXCEPT !.pc = "fatal", !.out = line]
    ELSE [after EXCEPT !.out = line]

\* one iteration of the inner loop of showAllMatchUps
ShowAllMatchUps ==
    /\ rps.pc = "all"
    /\ rps' = Printed(Versus(rps.p1, rps.p2),
                      IF rps.p2 + 1 < LEN_Move THEN [rps EXCEPT !.p2 = rps.p2 + 1]
                      ELSE IF rps.p1 + 1 < LEN_Move
                      THEN [rps EXCEPT !.p1 = rps.p1 + 1, !.p2 = ROCK]
                      ELSE [rps EXCEPT !.pc = "winning", !.p1 = ROCK, !.p2 = ROCK + 1])
    /\ UNCHANGED <<fieldVars, parseVars, columnOffset, lifeVars, runVars, sim, army>>

\* what one iteration of the inner loop of showWinningMatchUps prints
winningLine(p1, p2, last) ==
    IF Beats(p1, p2) THEN Versus(p1, p2)
    ELSE IF Beats(p2, p1) THEN Versus(p2, p1)
    ELSE last

\* one iteration of the inner loop of showWinningMatchUps
ShowWinningMatchUps ==
    /\ rps.pc = "winning"
    /\ rps' = Printed(winningLine(rps.p1, rps.p2, rps.out),
                      IF rps.p2 + 1 < LEN_Move THEN [rps EXCEPT !.p2 = rps.p2 + 1]
                      ELSE IF rps.p1 + 2 < LEN_Move
                      THEN [rps EXCEPT !.p1 = rps.p1 + 1, !.p2 = rps.p1 + 2]
                      ELSE [rps EXCEPT !.pc = "random", !.i = 0])
    /\ UNCHANGED <<fieldVars, parseVars, columnOffset, lifeVars, runVars, sim, army>>

\* one iteration of random10matches: randomMove() twice, then Versus
Random10Matches ==
    /\ rps.pc = "random"
    /\ \E p1 \in 0..(LEN_Move - 1), p2 \in 0..(LEN_Move - 1) :
          rps' = Printed(Versus(p1, p2),
                         IF rps.i + 1 < 10
                         THEN [rps EXCEPT !.i = rps.i + 1, !.p1 = p1, !.p2 = p2]
                         ELSE [rps EXCEPT !.pc = "sheldon", !.i = 0,
                                          !.p1 = p1, !.p2 = p2])
    /\ UNCHANGED <<fieldVars, parseVars, columnOffset, lifeVars, runVars, sim, army>>

\* one iteration of SheldonExplains
SheldonExplains ==
    /\ rps.pc = "sheldon"
    /\ rps' = [rps EXCEPT
                 !.out = [m1 |-> pairings[rps.i + 1].p1, m2 |-> pairings[rps.i + 1].p2,
                          fatal |-> FALSE,
                          text |-> (IF rps.i = Len(pairings) - 1
                                    THEN <<"...and as it always has,">> ELSE <<>>)
                                      \o WinResult(pairings[rps.i + 1])],
                 !.i = rps.i + 1,
                 !.pc = IF rps.i + 1 < Len(pairings) THEN "sheldon" ELSE "done"]
    /\ UNCHANGED <<fieldVars, parseVars, columnOffset, lifeVars, runVars, sim, army>>

NextRps == ShowAllMatchUps \/ ShowWinningMatchUps \/ Random10Matches \/ SheldonExplains

----------------------------------------------------------------------------
(* The army puzzle (armypuzzle.go) *)

\* the regiment list of main
RegimentList ==
    <<
       <<"1", " ", "A", "a", "r", "d", "v", "a", "r", "k", "s">>,
       <<"2", " ", "B", "e", "g", "o", "n", "i", "a", "s">>,
       <<"3", " ", "C", "h", "r", "y", "s", "a", "n", "t", "h", "e", "m",
         "u", "m", "s">>,
       <<"4", " ", "D", "h", "a", "l", "i", "a", "s">>,
       <<"5", " ", "E", "l", "e", "p", "h", "a", "n", "t", "s">>,
       <<"6", " ", "F", "e", "r", "r", "e", "t", "s">>,
       <<"7", " ", "G", "i", "l", "a", "M", "o", "n", "s", "t", "e", "r",
         "s">>,
       <<"8", " ", "H", "y", "r", "a", "x", "e", "s">>,
       <<"9", " ", "I", "b", "e", "x">>,
       <<"1", "0", " ", "J", "a", "c", "k", "y", "l", "s">>,
       <<"1", "1", " ", "K", "i", "m", "o", "d", "o", "D", "r", "a", "g",
         "o", "n", "s">>,
       <<"1", "2", " ", "L", "e", "m", "u", "r", "s">>,
       <<"1", "3", " ", "M", "a", "r", "i", "g", "o", "l", "d", "s">>,
       <<"1", "4", " ", "N", "o", "n", "a", "m", "e", "s">>,
       <<"1", "5", " ", "O", "p", "o", "s", "s", "u", "m", "s">>,
       <<"1", "6", " ", "P", "o", "r", "c", "u", "p", "i", "n", "e", "s">>,
       <<"1", "7", " ", "Q", "u", "a", "h", "o", "g", "s">>,
       <<"1", "8", " ", "R", "h", "o", "d", "o", "d", "e", "n", "d", "r",
         "o", "n", "s">>,
       <<"1", "9", " ", "S", "w", "o", "r", "d", "f", "i", "s", "h">>,
       <<"2", "0", " ", "T", "a", "p", "i", "r", "s">> >>

\* the regiments NewArmy makes of regimentList: number and name are the two
\* parts of the entry, the strengths go down by 50 from 50 * len(regimentList)
NewArmy(regimentList) ==
    [i \in 1..Len(regimentList) |->
        [number |-> Atoi(Split(regimentList[i], " ")[1]).val,
         name |-> Split(regimentList[i], " ")[2],
         strength |-> 50 * Len(regimentList) - 50 * (i - 1)]]

\* Army.update() giving every regiment 100 men
updateMutantAllHundred(regiments) ==
    [i \in 1..Len(regiments) |->
        [regiments[i] EXCEPT !.strength = regiments[i].strength + 100]]

\* Army.update(): the regiments afterwards
update(regiments) ==
    [i \in 1..Len(regiments) |->
        [regiments[i] EXCEPT
            !.strength = IF regiments[i].number = 5
                         THEN regiments[i].strength + 30
                         ELSE regiments[i].strength + 100]]

RECURSIVE biggestFrom(_, _, _)
\* the loop of biggestRegiment from index i on: pos afterwards (from 1)
biggestFrom(regiments, i, pos) ==
    IF i > Len(regiments) THEN pos
    ELSE IF regiments[i].strength > regiments[pos].strength
    THEN biggestFrom(regiments, i + 1, i)
    ELSE biggestFrom(regiments, i + 1, pos)

\* a.regiments[0] of an army without regiments: index out of range
biggestRegimentPanics(regiments) == Len(regiments) = 0

\* Army.biggestRegiment(): the position, counted from 1
biggestRegiment(regiments) == biggestFrom(regiments, 1, 1)

\* Army.shipout(r), r counted from 1
shipout(regiments, r) ==
    SubSeq(regiments, 1, r - 1) \o SubSeq(regiments, r + 1, Len(regiments))

NoRegiment == [number |-> 0, name |-> <<>>, strength |-> 0]

\* the armies of SpecArmy: NewArmy of every initial part of main's list
Armies == {NewArmy(SubSeq(RegimentList, 1, n)) : n \in 0..Len(RegimentList)}

\* solve() entered: week 1 of the loop
InitArmy ==
    /\ army \in {[pc |-> "update", listed |-> Len(a), regiments |-> a, week |-> 1,
                  pos |-> 0, biggest |-> NoRegiment, weekRegiment5goes |-> 0] :
                    a \in Armies}
    /\ rps = NoRps
    /\ sim = NoSim
    /\ field = NoField
    /\ call = Idle(NoField)
    /\ file = NoFile
    /\ columnOffset = 0
    /\ flp = NoResult
    /\ trace = <<>>
    /\ ppc = "start"
    /\ flags = NoFlags
    /\ seeder = NoProvider
    /\ heap = NoHeap
    /\ life = NoLife
    /\ emitted = <<>>
    /\ op = "start"
    /\ pc = "main"
    /\ shown = <<>>
    /\ rng = NoRng
    /\ runs = NoRuns

\* a.update()
ArmyUpdate ==
    /\ army.pc = "update"
    /\ army' = [army EXCEPT !.regiments = update(army.regiments), !.pc = "biggest"]
    /\ UNCHANGED <<fieldVars, parseVars, columnOffset, lifeVars, runVars, sim, rps>>

\* pos, biggest := a.biggestRegiment()
ArmyBiggestRegiment ==
    /\ army.pc = "biggest"
    /\ army' = IF biggestRegimentPanics(army.regiments)
               THEN [army EXCEPT !.pc = "panic"]
               ELSE [army EXCEPT
                       !.pos = biggestRegiment(army.regiments),
                       !.biggest = army.regiments[biggestRegiment(army.regiments)],
                       !.pc = "shipout"]
    /\ UNCHANGED <<fieldVars, parseVars, columnOffset, lifeVars, runVars, sim, rps>>

\* a.shipout(pos)
ArmyShipout ==
    /\ army.pc = "shipout"
    /\ army' = [army EXCEPT !.regiments = shipout(army.regiments, army.pos),
                            !.pc = "report"]
    /\ UNCHANGED <<fieldVars, parseVars, columnOffset, lifeVars, runVars, sim, rps>>

\* the rest of the loop body of solve: the reports, weekRegiment5goes, week++
ArmyReport ==
    /\ army.pc = "report"
    /\ army' = [army EXCEPT
                  !.weekRegiment5goes = IF army.biggest.number = 5 THEN army.week
                                        ELSE army.weekRegiment5goes,
                  !.week = army.week + 1,
                  !.pc = IF army.week + 1 <= 20 THEN "update" ELSE "answer"]
    /\ UNCHANGED <<fieldVars, parseVars, columnOffset, lifeVars, runVars, sim, rps>>

NextArmy == ArmyUpdate \/ ArmyBiggestRegiment \/ ArmyShipout \/ ArmyReport

----------------------------------------------------------------------------
(* Specifications *)

SpecField == InitField /\ [][NextField]_vars
SpecParse == InitParse /\ [][NextParse]_vars
SpecProvider == InitProvider /\ [][NextProvider]_vars
SpecLife == InitLife /\ [][NextLife]_vars
SpecSeeder == InitLife /\ [][NextSeeder]_vars
SpecRerun == InitRerun /\ [][NextRerun]_vars
SpecSimulate == InitSimulate /\ [][NextSimulate]_vars
SpecRps == InitRps /\ [][NextRps]_vars
SpecArmy == InitArmy /\ [][NextArmy]_vars
Spec == SpecLife

----------------------------------------------------------------------------
(* Properties *)

CellsOf(f) == (0..(f.width - 1)) \X (0..(f.height - 1))

AliveCells(f) == {c \in CellsOf(f) : f.state[c[2]][c[1]]}

LocSet(locs) == {<<locs[i].X, locs[i].Y>> : i \in 1..Len(locs)}

\* C1: after step() every cell of the current buffer holds next(x, y) of the
\* current buffer as it was before the step: all cells update simultaneously,
\* none from a cell already updated in the same step.
StepUpdatesAllCellsAtOnce ==
    [][(op' = "step" /\ life'.genCount = life.genCount + 1)
          => \A c \in CellsOf(heap[life.thisGen]) :
                alive(heap'[life'.thisGen], c[1], c[2])
                   = next(heap[life.thisGen], c[1], c[2])]_vars

\* C1 witness: a step has produced a generation that differs from the one before
StepWitness ==
    /\ op = "step"
    /\ life.genCount >= 1
    /\ life.width > 0 /\ life.height > 0
    /\ AliveCells(heap[life.thisGen]) # {}
    /\ AliveCells(heap[life.thisGen]) # AliveCells(heap[life.nextGen])

\* C2: Field.next(x, y) is true iff the live-neighbour count is 3, or it is 2
\* and the cell is alive; for the counts 0, 1, 4, 5, 6, 7, 8 it is false
\* whatever the cell's own state.
NextFollowsRuleTable ==
    call.op = "next" =>
        /\ ~call.panic
        /\ call.n \in 0..8
        /\ call.ret <=> (call.n = 3 \/ (call.n = 2 /\ field.state[call.y][call.x]))
        /\ call.n \in {0, 1, 4, 5, 6, 7, 8} => ~call.ret

\* C2 witness: a dead cell with exactly three live neighbours comes alive
NextRuleWitness ==
    /\ call.op = "next"
    /\ call.n = 3
    /\ ~field.state[call.y][call.x]
    /\ call.ret

\* the cells of f, other than (x, y), that lie at most one column and one row
\* away from (x, y) on the torus
ToroidalNeighbours(f, x, y) ==
    {c \in CellsOf(f) :
        /\ c # <<x, y>>
        /\ \E o \in Offsets : c = <<(x + o[1]) % f.width, (y + o[2]) % f.height>>}

AliveNeighbourCells(f, x, y) ==
    {c \in ToroidalNeighbours(f, x, y) : f.state[c[2]][c[1]]}

\* C3 as stated: on every field with width, height > 0 the neighbour count of
\* next(x, y) is the number of alive cells among the toroidal neighbours of
\* (x, y), each counted once and (x, y) itself never counted.
NeighbourCountIsCellCount ==
    call.op = "next" =>
        call.n = Cardinality(AliveNeighbourCells(field, call.x, call.y))

\* C3 amended: on every field with width >= 3 and height >= 3 the cell has 8
\* distinct toroidal neighbours and the neighbour count of next(x, y) is the
\* number of alive cells among them, (x, y) itself never counted.
NeighbourCountIsCellCountFrom3x3 ==
    (call.op = "next" /\ field.width >= 3 /\ field.height >= 3) =>
        /\ Cardinality(ToroidalNeighbours(field, call.x, call.y)) = 8
        /\ call.n = Cardinality(AliveNeighbourCells(field, call.x, call.y))

\* C3 witness: a live cell with no live neighbour on a 3x3 field counts 0
NeighbourCountWitness ==
    /\ call.op = "next"
    /\ field.width >= 3 /\ field.height >= 3
    /\ field.state[call.y][call.x]
    /\ call.n = 0

\* C4: Field.alive(x, y) accepts any integers x and y, never fails, and
\* returns the state of cell (((x mod width) + width) mod width,
\* ((y mod height) + height) mod height).
AliveWrapsEveryInteger ==
    call.op = "alive" =>
        /\ ~call.panic
        /\ call.ret = field.state[((call.y % field.height) + field.height) % field.height]
                                 [((call.x % field.width) + field.width) % field.width]

\* C5: Field.set(loc, alive) with loc outside [0,width) x [0,height), a
\* negative X or Y included, does not fail and changes no cell.
SetOutsideIsIgnored ==
    (call.op = "set" /\ <<call.x, call.y>> \notin CellsOf(call.before)) =>
        /\ ~call.panic
        /\ field = call.before

\* C6: for the random and the file-backed source, asking the seeder for the
\* next location when MoreLocations() is false halts the program fatally and
\* returns no coordinate.
NextLocationWithoutMoreIsFatal ==
    [][(op' = "nextLocation" /\ pc \in {"args", "life"} /\ ~MoreLocations(seeder))
          => (pc' = "fatal" /\ emitted' = emitted)]_vars

\* C6 witness: the file-backed seeder, drained by NewLife, was asked again
NextLocationFatalWitness ==
    /\ op = "nextLocation"
    /\ pc = "fatal"
    /\ seeder.kind = "file"
    /\ Len(emitted) = Len(seeder.locs)
    /\ Len(emitted) > 0

\* C7: after NewLife returns, the generation counter is 0, every cell of the
\* next-generation buffer is dead, the source is drained, and the alive cells
\* of the current buffer are exactly the coordinates the source emitted.
NewLifeSeedsFirstGeneration ==
    (op = "NewLife" /\ pc = "life") =>
        /\ life.genCount = 0
        /\ ~MoreLocations(seeder)
        /\ heap[life.nextGen] = NewField(life.width, life.height)
        /\ heap[life.thisGen].width = life.width
        /\ heap[life.thisGen].height = life.height
        /\ AliveCells(heap[life.thisGen]) = LocSet(emitted)

\* C7 witness: NewLife has returned with a seeded first generation
NewLifeWitness ==
    /\ op = "NewLife"
    /\ pc = "life"
    /\ seeder.kind = "file"
    /\ Cardinality(LocSet(emitted)) >= 2
    /\ AliveCells(heap[life.thisGen]) = LocSet(emitted)

\* the text before and the text after the first ':' of a line that has one
HeaderOf(l) == SubSeq(l, 1, Index(l, ":") - 1)
AfterColon(l) == SubSeq(l, Index(l, ":") + 1, Len(l))

\* a line that is neither a comment nor without ':'
Directive(l) == ~HasPrefix(l, "#") /\ Contains(l, ":")

\* a row line: its header is '++' or an integer
RowLine(l) ==
    Directive(l) /\ (HeaderOf(l) = <<"+", "+">> \/ ~Atoi(HeaderOf(l)).err)

RelativeLine(l) == Directive(l) /\ HeaderOf(l) = <<"+", "+">>

OffsetLine(l) == Directive(l) /\ HeaderOf(l) = <<">", ">">>

\* the columns the marks of a row line stand for: the marks are all the text
\* after the first ':' without its trailing white space
MarkColumns(l, offset) ==
    LET marks == TrimRightSpace(AfterColon(l)) IN
    {(i - 1) + offset : i \in {j \in 1..Len(marks) : marks[j] # " "}}

\* C8: the marks of a row line are the whole text after its first ':' with
\* trailing white space trimmed; each non-space character at index i yields
\* exactly one coordinate, with column i + columnOffset, and a space none,
\* also when the line contains further ':' characters.
MarksAreAllTextAfterFirstColon ==
    \A k \in 1..Len(trace) :
        RowLine(trace[k].line) =>
            /\ {trace[k].locs[i].X : i \in 1..Len(trace[k].locs)}
                  = MarkColumns(trace[k].line, trace[k].offsetIn)
            /\ Len(trace[k].locs)
                  = Cardinality(MarkColumns(trace[k].line, trace[k].offsetIn))

\* the row the claim gives row line j of the trace: the number in its header,
\* or for a '++' line the row the parse gave it
RowOfLine(j) ==
    IF RelativeLine(trace[j].line) THEN trace[j].row
    ELSE Atoi(HeaderOf(trace[j].line)).val

RowLinesBefore(k) == {j \in 1..(k - 1) : RowLine(trace[j].line)}

LastRowLineBefore(k) ==
    CHOOSE j \in RowLinesBefore(k) : \A i \in RowLinesBefore(k) : i <= j

\* C9: a '++' line places its cells on row lastRow + 1, lastRow being the row
\* of the last row line parsed before it (absolute, relative or without
\* marks), whatever comment, malformed or '>>' lines lie in between; the lines
\* '01:@ @', '++: @ ' yield (0,1), (2,1), (1,2).
RelativeRowIsLastRowPlusOne ==
    /\ \A k \in 1..Len(trace) :
          (RelativeLine(trace[k].line) /\ RowLinesBefore(k) # {}) =>
              /\ trace[k].row = RowOfLine(LastRowLineBefore(k)) + 1
              /\ \A i \in 1..Len(trace[k].locs) :
                    trace[k].locs[i].Y = RowOfLine(LastRowLineBefore(k)) + 1
    /\ (ppc = "built" /\ file.lines = <<Line01, LineRel>>) =>
          LocSet(flp.provider.locs) = {<<0, 1>>, <<2, 1>>, <<1, 2>>}

\* C9 witness: '01:@ @', a line without ':', then '++: @ ' have been parsed
RelativeRowWitness ==
    /\ ppc = "built"
    /\ file.lines = <<Line01, <<"b", "a", "d">>, LineRel>>
    /\ LocSet(flp.provider.locs) = {<<0, 1>>, <<2, 1>>, <<1, 2>>}

\* a '>>:N' line whose N is all the rest of the line
PlainOffsetLine(l) ==
    /\ OffsetLine(l)
    /\ ~Contains(AfterColon(l), ":")
    /\ TrimRightSpace(AfterColon(l)) = AfterColon(l)

----------------------------------------------------------------------------
(* The parser, continued *)

\* no '>>' line precedes line k of the file being parsed
NoOffsetLineBefore(k) == \A j \in 1..(k - 1) : ~OffsetLine(trace[j].line)

\* C11: columnOffset is 0 at the start of every parse: in a second call of
\* NewFileLocationProvider, made after a file that set '>>:N' with N > 0,
\* the lines before the second file's first '>>' line have their columns
\* computed with offset 0.
SecondParseStartsAtOffsetZero ==
    ppc = "again" =>
        \A k \in 1..Len(trace) :
            (RowLine(trace[k].line) /\ NoOffsetLineBefore(k)) =>
                \A i \in 1..Len(trace[k].locs) :
                    /\ trace[k].locs[i].X \in 0..(Len(AfterColon(trace[k].line)) - 1)
                    /\ AfterColon(trace[k].line)[trace[k].locs[i].X + 1] # " "

\* C12: when the first row line of a file is a '++' line, with no absolute
\* row line before it, its cells are placed on row 0.
FirstRelativeRowIsZero ==
    ppc = "built" =>
        \A k \in 1..Len(trace) :
            (RelativeLine(trace[k].line) /\ RowLinesBefore(k) = {}) =>
                /\ trace[k].row = 0
                /\ \A i \in 1..Len(trace[k].locs) : trace[k].locs[i].Y = 0

\* a text that is an integer: an optional sign, then one or more digits
IntegerText(h) ==
    /\ Len(h) >= 1
    /\ \A i \in 2..Len(h) : h[i] \in Digits
    /\ IF h[1] \in {"+", "-"} THEN Len(h) >= 2 ELSE h[1] \in Digits

\* a line the parser is to ignore: a comment, a line without ':', or a line
\* whose header is none of '>>', '++' or an integer
IgnoredLine(l) ==
    \/ HasPrefix(l, "#")
    \/ ~Contains(l, ":")
    \/ /\ HeaderOf(l) # <<">", ">">>
       /\ HeaderOf(l) # <<"+", "+">>
       /\ ~IntegerText(HeaderOf(l))

\* C13: a line that starts with '#', a line without ':', and a line whose
\* header is none of '>>', '++' or an integer each produce no coordinate and
\* leave lastRow and columnOffset as they were.
IgnoredLinesChangeNothing ==
    \A k \in 1..Len(trace) :
        IgnoredLine(trace[k].line) =>
            /\ trace[k].locs = <<>>
            /\ trace[k].row = trace[k].lastRow
            /\ trace[k].offsetOut = trace[k].offsetIn

\* C13 witness: '>>:5', '05:@', 'x:@' have been parsed; the last line left row
\* 5 and offset 5 in place and gave no coordinate
IgnoredLineWitness ==
    /\ ppc = "built"
    /\ file.lines = <<LineOffset5, Line05, <<"x", ":", "@">> >>
    /\ trace[3].lastRow = 5 /\ trace[3].row = 5
    /\ columnOffset = 5
    /\ flp.provider.locs = <<NewFieldLocation(5, 5)>>

\* C14: a row line whose marks yield no live column emits no coordinate but
\* still sets lastRow to its row number, so a following '++' line lands on
\* that row + 1; '05:@', '++:', '++:@' put the last cell on row 7.
EmptyRowLineUpdatesLastRow ==
    /\ \A k \in 1..Len(trace) :
          /\ (RowLine(trace[k].line) /\ MarkColumns(trace[k].line, 0) = {}) =>
                /\ trace[k].locs = <<>>
                /\ trace[k].row = IF RelativeLine(trace[k].line)
                                  THEN trace[k].lastRow + 1
                                  ELSE Atoi(HeaderOf(trace[k].line)).val
          /\ k > 1 => trace[k].lastRow = trace[k - 1].row
    /\ (ppc = "built" /\ file.lines = <<Line05, LineRelNone, LineRelOne>>) =>
          flp.provider.locs = <<NewFieldLocation(0, 5), NewFieldLocation(0, 7)>>

\* C14 witness: '05:@', '++:', '++:@' have been parsed, the last cell is on row 7
EmptyRowLineWitness ==
    /\ ppc = "built"
    /\ file.lines = <<Line05, LineRelNone, LineRelOne>>
    /\ trace[2].locs = <<>> /\ trace[2].row = 6
    /\ flp.provider.locs[Len(flp.provider.locs)] = NewFieldLocation(0, 7)

\* C15: a '<N>:<marks>' line whose header is an integer N places all its cells
\* on row N, whatever lastRow is, and sets lastRow to N; absolute rows need
\* not be increasing.
AbsoluteRowIsHeaderNumber ==
    \A k \in 1..Len(trace) :
        (Directive(trace[k].line) /\ IntegerText(HeaderOf(trace[k].line))) =>
            /\ trace[k].row = Atoi(HeaderOf(trace[k].line)).val
            /\ \A i \in 1..Len(trace[k].locs) :
                  trace[k].locs[i].Y = Atoi(HeaderOf(trace[k].line)).val
            /\ k < Len(trace) =>
                  trace[k + 1].lastRow = Atoi(HeaderOf(trace[k].line)).val

\* C15 witness: '05:@' then '01:@ @' have been parsed: row 5, then row 1
AbsoluteRowWitness ==
    /\ ppc = "built"
    /\ file.lines = <<Line05, Line01>>
    /\ trace[2].lastRow = 5
    /\ flp.provider.locs
          = <<NewFieldLocation(0, 5), NewFieldLocation(0, 1), NewFieldLocation(2, 1)>>

RECURSIVE TraceLocs(_)
\* the coordinates of the first k lines of the file, in line order
TraceLocs(k) == IF k = 0 THEN <<>> ELSE TraceLocs(k - 1) \o trace[k].locs

\* C16: the file-backed source holds its coordinates in file line order and,
\* within one line, in increasing column order; successive NextLocation()
\* calls walk this list once, each element returned exactly once, and
\* MoreLocations() is true exactly while elements remain.
FileSourceEmitsInFileOrder ==
    ppc \in {"built", "again"} =>
        /\ flp.provider.locs = TraceLocs(Len(trace))
        /\ \A k \in 1..Len(trace) :
              \A i, j \in 1..Len(trace[k].locs) :
                  i < j => trace[k].locs[i].X < trace[k].locs[j].X
        /\ Len(emitted) <= Len(flp.provider.locs)
        /\ emitted = SubSeq(flp.provider.locs, 1, Len(emitted))
        /\ MoreLocations(flp.provider) <=> Len(emitted) < Len(flp.provider.locs)

\* C16 witness: the provider of '01:@ @', '++: @ ' has been walked to its end
FileSourceWalkedWitness ==
    /\ ppc = "built"
    /\ file.lines = <<Line01, LineRel>>
    /\ emitted = <<NewFieldLocation(0, 1), NewFieldLocation(2, 1),
                   NewFieldLocation(1, 2)>>
    /\ ~MoreLocations(flp.provider)

\* C17: NewFileLocationProvider returns an error value and no provider,
\* without panicking, when the file cannot be opened or has no lines; in
\* every other case it returns a provider and a nil error.
ErrorOnlyWhenUnopenedOrEmpty ==
    ppc \in {"built", "error"} =>
        IF ~file.exists \/ file.lines = <<>>
        THEN flp.err # "nil" /\ flp.provider = NilProvider
        ELSE flp.err = "nil" /\ flp.provider # NilProvider

\* C17, amended: NewFileLocationProvider returns an error value and no
\* provider, without panicking, when the file cannot be opened, when reading
\* it stops on an error, or when it has no lines; in every other case it
\* returns a provider and a nil error.
ErrorWhenUnreadableOrEmpty ==
    ppc \in {"built", "error"} =>
        IF ~file.exists \/ file.scanErr \/ file.lines = <<>>
        THEN flp.err \in {"read", "empty"} /\ flp.provider = NilProvider
                /\ ppc = "error"
        ELSE flp.err = "nil" /\ flp.provider # NilProvider /\ ppc = "built"

\* C17 witness: a file that opens and delivers a line before its scan fails
\* has given an error and no provider
ScanErrorWitness ==
    /\ ppc = "error"
    /\ file.exists /\ file.scanErr /\ Len(file.lines) = 1
    /\ flp.err = "read"
    /\ flp.provider = NilProvider

----------------------------------------------------------------------------
(* The random source and the field's construction *)

\* C18: for width, height > 0 a RandomLocationProvider drained with the
\* MoreLocations()/NextLocation() loop emits exactly floor(width*height/4)
\* coordinates, each within [0,width) x [0,height); duplicates may occur.
RandomSourceEmitsQuarter ==
    (op = "NewLife" /\ seeder.kind = "random"
        /\ seeder.width > 0 /\ seeder.height > 0) =>
        /\ pc = "life"
        /\ Len(emitted) = (seeder.width * seeder.height) \div 4
        /\ ~MoreLocations(seeder)
        /\ \A i \in 1..Len(emitted) :
              /\ emitted[i].X \in 0..(seeder.width - 1)
              /\ emitted[i].Y \in 0..(seeder.height - 1)

\* C18 witness: a 3x3 random source has been drained of 2 coordinates, twice
\* the same one
RandomSourceWitness ==
    /\ op = "NewLife"
    /\ seeder.kind = "random"
    /\ seeder.width = 3 /\ seeder.height = 3
    /\ Len(emitted) = 2
    /\ emitted[1] = emitted[2]

\* C19: constructing a Field with width <= 0 or height <= 0 fails with a
\* construction error and the simulation never proceeds with such a field;
\* with width, height > 0 the new field has every cell dead.
InvalidFieldNeverProceeds ==
    /\ (op = "NewLife" /\ (flags.fieldWidth <= 0 \/ flags.fieldHeight <= 0)) =>
          pc # "life"
    /\ pc = "life" =>
          /\ life.width > 0 /\ life.height > 0
          /\ heap[life.thisGen].width > 0 /\ heap[life.thisGen].height > 0
    /\ (op = "NewLife" /\ pc = "life") => AliveCells(heap[life.nextGen]) = {}

\* C20: every coordinate the file-backed source emits lies within
\* [0,W) x [0,H), (W,H) being the MinimumBounds() of that source.
LocationsWithinMinimumBounds ==
    ppc = "built" =>
        \A i \in 1..Len(flp.provider.locs) :
            /\ flp.provider.locs[i].X \in 0..(MinimumBounds(flp.provider)[1] - 1)
            /\ flp.provider.locs[i].Y \in 0..(MinimumBounds(flp.provider)[2] - 1)

----------------------------------------------------------------------------
(* The field's wraparound and the set / alive round trip *)

\* the column and the row of the call in flight are within the field
CallColumnInRange == call.x \in 0..(field.width - 1)
CallRowInRange == call.y \in 0..(field.height - 1)

\* C25: for every field with w, h > 0 and every row y, alive(-1, y) =
\* alive(w-1, y) and alive(w, y) = alive(0, y); likewise alive(x, -1) =
\* alive(x, h-1) and alive(x, h) = alive(x, 0).
AliveWrapsByOne ==
    call.op = "alive" =>
        /\ (call.x = -1 /\ CallRowInRange) =>
              ~call.panic /\ call.ret = field.state[call.y][field.width - 1]
        /\ (call.x = field.width /\ CallRowInRange) =>
              ~call.panic /\ call.ret = field.state[call.y][0]
        /\ (call.y = -1 /\ CallColumnInRange) =>
              ~call.panic /\ call.ret = field.state[field.height - 1][call.x]
        /\ (call.y = field.height /\ CallColumnInRange) =>
              ~call.panic /\ call.ret = field.state[0][call.x]

\* C25 witness: alive(-1, y) has returned true on a field 3 wide whose cell
\* (2, y) is alive and whose cells (0, y), (1, y) are dead
AliveWrapWitness ==
    /\ call.op = "alive" /\ call.x = -1 /\ CallRowInRange
    /\ field.width = 3
    /\ call.ret /\ ~call.panic
    /\ field.state[call.y][2] /\ ~field.state[call.y][0] /\ ~field.state[call.y][1]

\* C26: for every field with w, h > 0, every in-range coordinate c and every
\* boolean b: after set(c, b), alive(c.X, c.Y) = b and the state of every
\* other cell is unchanged.
SetAliveRoundTrip ==
    (call.op = "set" /\ CallColumnInRange /\ CallRowInRange) =>
        /\ ~call.panic
        /\ ~alivePanics(field, call.x, call.y)
        /\ alive(field, call.x, call.y) = call.b
        /\ field.width = call.before.width /\ field.height = call.before.height
        /\ \A x \in 0..(field.width - 1), y \in 0..(field.height - 1) :
              (x # call.x \/ y # call.y) =>
                  field.state[y][x] = call.before.state[y][x]

\* C26 witness: set(c, true) has run on a dead in-range cell c of a field
\* that holds a dead cell and an alive cell besides c
SetAliveWitness ==
    /\ call.op = "set" /\ CallColumnInRange /\ CallRowInRange
    /\ call.b /\ ~call.before.state[call.y][call.x]
    /\ alive(field, call.x, call.y)
    /\ \E x \in 0..(field.width - 1), y \in 0..(field.height - 1) :
          (x # call.x \/ y # call.y) /\ field.state[y][x]
    /\ \E x \in 0..(field.width - 1), y \in 0..(field.height - 1) :
          (x # call.x \/ y # call.y) /\ ~field.state[y][x]

----------------------------------------------------------------------------
(* The parser and malformed lines *)

\* a '>>' line whose operand, all the rest of the line, is not a
\* non-negative integer
InvalidOffsetLine(l) ==
    /\ PlainOffsetLine(l)
    /\ \/ ~IntegerText(AfterColon(l))
       \/ Atoi(AfterColon(l)).val < 0

\* a comment line, a line without ':', a line with an unparseable header or
\* a '>>' line with an invalid operand
MalformedLine(l) == IgnoredLine(l) \/ InvalidOffsetLine(l)

\* the lines of the file without its malformed lines
WellFormedLines == SelectSeq(file.lines, LAMBDA l : ~MalformedLine(l))

\* the provider of the file without its malformed lines
WellFormedProvider ==
    NewFileLocationProvider(
        [exists |-> TRUE, scanErr |-> FALSE, lines |-> WellFormedLines], 0).provider

----------------------------------------------------------------------------
(* The program: the field's size, the generation counter, patterns,        *)
(* rendering, the source, the seed                                         *)

\* C21: when a valid seed file is given, the field of the simulation has
\* width = max(requested -x, minimum width) and height = max(requested -y,
\* minimum height), and every coordinate the file defines is alive in the
\* initial generation.
SeedFileFitsField ==
    [][ /\ (pc = "main" /\ pc' = "args" /\ seeder'.kind = "file") =>
              /\ flags'.fieldWidth
                    = max(flags.fieldWidth, MinimumBounds(seeder')[1])
              /\ flags'.fieldHeight
                    = max(flags.fieldHeight, MinimumBounds(seeder')[2])
        /\ (pc = "args" /\ op' = "NewLife" /\ seeder.kind = "file") =>
              /\ pc' = "life"
              /\ life'.width = flags.fieldWidth
              /\ life'.height = flags.fieldHeight
              /\ heap'[life'.thisGen].width = flags.fieldWidth
              /\ heap'[life'.thisGen].height = flags.fieldHeight
              /\ LocSet(seeder.locs) \subseteq AliveCells(heap'[life'.thisGen])
      ]_vars

\* C22: the generation counter is 0 after construction, increases by exactly
\* 1 on every step() and is changed by no other operation; it equals the
\* number of steps performed.
GenCountCountsSteps ==
    [][ /\ (op' = "NewLife" /\ pc' = "life") => life'.genCount = 0
        /\ op' = "step" => life'.genCount = life.genCount + 1
        /\ (pc = "life" /\ op' # "step") => life'.genCount = life.genCount
        /\ pc' = "life" => life'.genCount = Len(runs'.hist) - 1
      ]_vars

\* C22 witness: a Life stepped twice has been rendered and counts 2
GenCountWitness ==
    /\ op = "String"
    /\ life.genCount = 2
    /\ Len(runs.hist) = 3

HLine == {<<1, 2>>, <<2, 2>>, <<3, 2>>}
VLine == {<<2, 1>>, <<2, 2>>, <<2, 3>>}

\* C23: on a field of at least 5x5 whose only live cells are (1,2), (2,2),
\* (3,2), one step() yields exactly (2,1), (2,2), (2,3) and a second step()
\* the horizontal line again.
BlinkerOscillates ==
    [][ (op' = "step" /\ life.width >= 5 /\ life.height >= 5) =>
            /\ AliveCells(heap[life.thisGen]) = HLine =>
                  AliveCells(heap'[life'.thisGen]) = VLine
            /\ AliveCells(heap[life.thisGen]) = VLine =>
                  AliveCells(heap'[life'.thisGen]) = HLine
      ]_vars

\* C23 witness: a 5x5 Life seeded with the horizontal line has been stepped
\* twice, through the vertical line back to the horizontal one
BlinkerWitness ==
    /\ pc = "life" /\ op = "step"
    /\ life.width = 5 /\ life.height = 5
    /\ life.genCount = 2
    /\ AliveCells(runs.hist[1]) = HLine
    /\ AliveCells(runs.hist[2]) = VLine
    /\ AliveCells(heap[life.thisGen]) = HLine

\* the 2x2 block whose top left cell is (x0, y0) on a w x h torus
BlockAt(x0, y0, w, h) ==
    {<<x0, y0>>, <<(x0 + 1) % w, y0>>, <<x0, (y0 + 1) % h>>,
     <<(x0 + 1) % w, (y0 + 1) % h>>}

IsBlock(cells, w, h) ==
    \E x0 \in 0..(w - 1), y0 \in 0..(h - 1) : cells = BlockAt(x0, y0, w, h)

\* C24: on a field of at least 4x4 whose only live cells form a 2x2 block,
\* at any position, also one that straddles the wraparound edge, the set of
\* live cells is unchanged after step().
BlockIsStill ==
    [][ (op' = "step" /\ life.width >= 4 /\ life.height >= 4
            /\ IsBlock(AliveCells(heap[life.thisGen]), life.width, life.height)) =>
            AliveCells(heap'[life'.thisGen]) = AliveCells(heap[life.thisGen])
      ]_vars

\* C24 witness: the block on the four corners of a 4x4 field has been
\* stepped twice and is still there
BlockWitness ==
    /\ pc = "life" /\ op = "step"
    /\ life.width = 4 /\ life.height = 4
    /\ life.genCount >= 2
    /\ AliveCells(runs.hist[1]) = BlockAt(3, 3, 4, 4)
    /\ AliveCells(heap[life.thisGen]) = {<<0, 0>>, <<3, 0>>, <<0, 3>>, <<3, 3>>}

\* the two bytes of the cell at row y, position x of the text of a Life w wide
ShownCell(text, w, x, y) ==
    SubSeq(text, y * (2 * w + 1) + 2 * x + 1, y * (2 * w + 1) + 2 * x + 2)

\* C28: Life.String() renders the current buffer, never the next-generation
\* buffer: height rows, each of width cells and a newline, the cell at row y,
\* position x being the live glyph iff (x,y) is alive in the current buffer
\* and the dead glyph otherwise; rendering changes no state.
StringRendersCurrentBuffer ==
    [][ op' = "String" =>
            /\ heap' = heap /\ life' = life
            /\ seeder' = seeder /\ flags' = flags /\ emitted' = emitted
            /\ Len(shown') = life.height * (2 * life.width + 1)
            /\ \A y \in 0..(life.height - 1) :
                  /\ shown'[(y + 1) * (2 * life.width + 1)] = "\n"
                  /\ \A x \in 0..(life.width - 1) :
                        ShownCell(shown', life.width, x, y)
                          = IF heap[life.thisGen].state[y][x]
                            THEN livecell ELSE deadcell
      ]_vars

\* C28 witness: a Life whose two buffers differ has been rendered: the text
\* has a live cell and a dead cell
StringWitness ==
    /\ op = "String"
    /\ life.genCount >= 1
    /\ AliveCells(heap[life.thisGen]) # AliveCells(heap[life.nextGen])
    /\ AliveCells(heap[life.thisGen]) # {}
    /\ \E x \in 0..(life.width - 1), y \in 0..(life.height - 1) :
          ShownCell(shown, life.width, x, y) = livecell
    /\ \E x \in 0..(life.width - 1), y \in 0..(life.height - 1) :
          ShownCell(shown, life.width, x, y) = deadcell

\* C29: the source is consumed exactly once, fully, and before the first
\* generation exists: every NextLocation() call happens during NewLife,
\* before any step(); after NewLife returns MoreLocations() is false and no
\* step or render consults the source again.
SourceConsumedOnce ==
    [][ /\ op' \in {"step", "String"} =>
              seeder' = seeder /\ emitted' = emitted
        /\ (seeder'.i # seeder.i \/ emitted' # emitted) =>
              pc = "args" /\ op' = "NewLife"
        /\ pc' = "life" =>
              /\ ~MoreLocations(seeder')
              /\ seeder'.i = Len(emitted')
              /\ seeder'.kind = "file" => emitted' = seeder'.locs
      ]_vars

\* C29 witness: a Life whose source gave two locations has been stepped and
\* rendered; the source is where NewLife left it
SourceConsumedWitness ==
    /\ op = "String"
    /\ life.genCount >= 1
    /\ Len(emitted) >= 2
    /\ seeder.i = Len(emitted)
    /\ ~MoreLocations(seeder)

\* both runs drew their population from the random source, with the same
\* width, height and seed
SameSeededRuns ==
    /\ runs.first.kind = "random"
    /\ seeder.kind = "random"
    /\ pc = "life"
    /\ life.width = runs.first.width
    /\ life.height = runs.first.height
    /\ flags.seed = runs.first.seed

\* C30: the random source is deterministic given the seed: two runs with
\* the same width, height and random seed emit the same coordinate sequence
\* and hold identical fields at every generation count.
SameSeedSameRun ==
    SameSeededRuns =>
        /\ emitted = runs.first.emitted
        /\ \A g \in 1..Len(runs.hist) :
              g <= Len(runs.first.hist) => runs.hist[g] = runs.first.hist[g]

\* C30 witness: a second run on a 3x3 field with the seed of the first has
\* emitted the same two distinct coordinates and has been stepped
SameSeedWitness ==
    /\ SameSeededRuns
    /\ life.width = 3 /\ life.height = 3
    /\ life.genCount >= 1
    /\ Len(emitted) = 2 /\ emitted[1] # emitted[2]
    /\ emitted = runs.first.emitted

----------------------------------------------------------------------------
(* The two buffers of a Life, error states, bounds and source selection *)

\* C31: a Life holds two distinct Field buffers, both of the width and height
\* given at construction; step() exchanges which one is current without
\* copying cells (the buffer that was current keeps its cells and becomes
\* the next one), and the dimensions never change.
TwoBuffersExchanged ==
    [][ /\ pc' = "life" =>
              /\ life'.thisGen # life'.nextGen
              /\ life'.width = flags'.fieldWidth
              /\ life'.height = flags'.fieldHeight
              /\ \A a \in {life'.thisGen, life'.nextGen} :
                    /\ heap'[a].width = life'.width
                    /\ heap'[a].height = life'.height
                    /\ DOMAIN heap'[a].state = 0..(life'.height - 1)
                    /\ \A y \in DOMAIN heap'[a].state :
                          DOMAIN heap'[a].state[y] = 0..(life'.width - 1)
        /\ op' = "step" =>
              /\ life'.thisGen = life.nextGen
              /\ life'.nextGen = life.thisGen
              /\ heap'[life.thisGen] = heap[life.thisGen]
              /\ life'.width = life.width
              /\ life'.height = life.height
      ]_vars

\* C31 witness: after one step the second buffer is current and the first,
\* now the next one, still holds the cells of the seed population
TwoBuffersWitness ==
    /\ op = "step"
    /\ life.genCount = 1
    /\ life.thisGen = "B" /\ life.nextGen = "A"
    /\ AliveCells(heap["A"]) = LocSet(emitted)
    /\ Cardinality(LocSet(emitted)) >= 3
    /\ AliveCells(heap["B"]) # AliveCells(heap["A"])

\* C32: no error state is reachable in a normal run: with the random source
\* on a width and height >= 0 or with any parsed seed file, NewLife never
\* halts on 'no more locations', and neither NewLife nor a step() fails.
NoErrorStateInNormalRun ==
    (/\ seeder # NoProvider
     /\ seeder.kind = "random" => (seeder.width >= 0 /\ seeder.height >= 0)) =>
        pc \notin {"fatal", "panic"}

\* the largest number of a non-empty set of integers
LargestOf(S) == CHOOSE m \in S : \A n \in S : n <= m

\* C33: whenever the seed file yields at least one coordinate, the width of
\* MinimumBounds() is 1 + the largest X and its height 1 + the largest Y of
\* the coordinates emitted.
MinimumBoundsIsMinimum ==
    (ppc = "built" /\ flp.provider.locs # <<>>) =>
        /\ MinimumBounds(flp.provider)[1] =
              1 + LargestOf({flp.provider.locs[i].X : i \in 1..Len(flp.provider.locs)})
        /\ MinimumBounds(flp.provider)[2] =
              1 + LargestOf({flp.provider.locs[i].Y : i \in 1..Len(flp.provider.locs)})

\* the number of digits a text starts with
LeadingDigits(s) ==
    CHOOSE n \in 0..Len(s) :
        /\ \A i \in 1..n : s[i] \in Digits
        /\ n < Len(s) => s[n + 1] \notin Digits

\* a '>>:N...' line: a column number N with something after it
OffsetLineWithTrailer(l) ==
    /\ OffsetLine(l)
    /\ LeadingDigits(AfterColon(l)) \in 1..(Len(AfterColon(l)) - 1)

\* C34: a '>>:' line that has anything after the column number (trailing
\* spaces, or ':' and more text) is a parsing error: columnOffset keeps the
\* value it had before the line.
OffsetLineWithTrailerIsIgnored ==
    \A k \in 1..Len(trace) :
        OffsetLineWithTrailer(trace[k].line) =>
            trace[k].offsetOut = trace[k].offsetIn

\* C38: initSeed selects exactly one population source. When -f names a file
\* from which a provider is built without error, that provider is the
\* seeder, the -seed value is left as given and the random generator is
\* neither seeded nor consulted for the population; otherwise the seeder is
\* the random source over the requested width and height, which stay as
\* requested.
OneSourceSelected ==
    [][ /\ op' = "processArgs" =>
              IF initSeedFile(flags, columnOffset).err = "nil"
              THEN /\ seeder' = initSeedFile(flags, columnOffset).provider
                   /\ seeder'.kind = "file"
                   /\ flags'.seed = flags.seed
                   /\ rng' = rng
              ELSE /\ seeder' = NewRandomLocationProvider(flags.fieldWidth,
                                                          flags.fieldHeight)
                   /\ seeder'.kind = "random"
                   /\ flags'.fieldWidth = flags.fieldWidth
                   /\ flags'.fieldHeight = flags.fieldHeight
        /\ (op' = "NewLife" /\ seeder.kind = "file") =>
              /\ rng' = rng
              /\ emitted' = seeder.locs \/ pc' = "panic"
        /\ (op' = "NewLife" /\ seeder.kind = "random") => seeder'.kind = "random"
      ]_vars

\* C38 witness: -f named a readable file and -seed was given: the file
\* provider has populated the field and the generator was never seeded
FileSourceSelectedWitness ==
    /\ pc = "life"
    /\ flags.initPath = "glider"
    /\ flags.seed = 2
    /\ seeder.kind = "file"
    /\ rng = NoRng
    /\ Len(emitted) = 6

----------------------------------------------------------------------------
(* simulate: the steps taken, the generations displayed, the summary *)

\* the -n and -s values of the command line of the run, and the number of
\* the first generation it displays
GivenGens == sim.cmd.gens
GivenStart == sim.cmd.startGen
FirstShown == max(sim.cmd.startGen, 1)

\* the board Life.String() prints for field f of the current Life
BoardOf(f) == StringFrom(f, life, 0, <<>>)

\* C35: simulate(gens) terminates: stepThroughAll performs exactly gens + s'
\* steps, s' being S - 1 for a -s value S > 1 and 0 otherwise, and then the
\* summary is printed, reporting that number as the generation counter.
SimulateStepsGensPlusStart ==
    /\ op = "simulate" => pc = "loop"
    /\ pc = "done" =>
          /\ life.genCount = GivenGens + (IF GivenStart > 1 THEN GivenStart - 1 ELSE 0)
          /\ Len(runs.hist) - 1 = life.genCount
          /\ sim.summary.calculated = life.genCount

LastDisplayed == sim.first.displays[Len(sim.first.displays)]

\* C37: the -s value of the summary is the number of generations computed,
\* and a run started with the command line of the summary first displays the
\* field state that follows the last state the finished run displayed, under
\* the next generation number: none is displayed twice and none is skipped.
ResumeShowsNextGeneration ==
    /\ sim.summary.printed => sim.summary.s = life.genCount
    /\ (sim.first.ran /\ sim.first.displays # <<>> /\ sim.displays # <<>>) =>
          /\ sim.displays[1].generation = LastDisplayed.generation + 1
          /\ sim.displays[1].board =
                BoardOf(sim.first.hist[LastDisplayed.generation + 1])

----------------------------------------------------------------------------
(* Rock-paper-scissors-lizard-Spock and the army puzzle *)

\* the pairings table holds the match-up with winner m1 and loser m2
Paired(m1, m2) ==
    \E k \in 1..Len(pairings) : pairings[k].p1 = m1 /\ pairings[k].p2 = m2

\* C39: for all moves m1, m2: m1.Beats(m2) iff pairings holds the match-up
\* with winner m1 and loser m2; no move beats itself; of two different moves
\* exactly one beats the other; findMatchUp finds an entry for every pair, so
\* Versus never reaches its fatal branch.
BeatsAgreesWithPairings ==
    /\ \A m1 \in Moves, m2 \in Moves :
          /\ Beats(m1, m2) <=> Paired(m1, m2)
          /\ ~Beats(m1, m1)
          /\ m1 # m2 => (Beats(m1, m2) <=> ~Beats(m2, m1))
          /\ ~findMatchUp(m1, m2).err
    /\ rps.pc # "fatal"
    /\ ~rps.out.fatal
    /\ (rps.out.text # <<>> /\ (rps.pc = "sheldon" => rps.i = 0) /\ rps.pc # "done") =>
          rps.out.text = IF rps.out.m1 = rps.out.m2
                         THEN <<MoveString(rps.out.m1), "ties", MoveString(rps.out.m2)>>
                         ELSE IF Paired(rps.out.m1, rps.out.m2)
                         THEN WinResult(findMatchUp(rps.out.m1, rps.out.m2).matchUp)
                         ELSE LoseResult(findMatchUp(rps.out.m1, rps.out.m2).matchUp)

\* C39 witness: a random match of Scissors versus Rock has been printed as
\* a loss of Scissors
BeatsWitness ==
    /\ rps.pc = "random"
    /\ rps.out.m1 = SCISSORS /\ rps.out.m2 = ROCK
    /\ rps.out.text = <<"Scissors", "are", "crushed", "by", "Rock">>
    /\ Beats(ROCK, SCISSORS) /\ ~Beats(SCISSORS, ROCK)

\* C40: solve on the 20 regiments of main: exactly one regiment is removed
\* per week, the army is never empty when biggestRegiment is called, it is
\* empty after week 20, and Regiment 5 ships out in week 20.
RegimentFiveShipsLast ==
    army.listed = Len(RegimentList) =>
        /\ \A i \in 1..Len(army.regiments) :
              army.regiments[i].number \in 1..20
        /\ army.week = 1 /\ army.pc = "update" =>
              \A i \in 1..Len(army.regiments) :
                  /\ army.regiments[i].number = i
                  /\ army.regiments[i].strength = 50 * (21 - i)
        /\ army.pc \in {"update", "biggest", "shipout"} =>
              Len(army.regiments) = 20 - (army.week - 1)
        /\ army.pc \in {"report"} => Len(army.regiments) = 20 - army.week
        /\ army.pc = "biggest" => army.regiments # <<>>
        /\ army.pc # "panic"
        /\ army.pc = "answer" =>
              /\ army.week = 21
              /\ army.regiments = <<>>
              /\ army.weekRegiment5goes = 20
        /\ (army.pc = "report" /\ army.biggest.number = 5) => army.week = 20
        /\ (army.pc = "report" /\ army.week = 20) => army.biggest.number = 5

\* C40 witness: the 20 weeks of main's army are over, Regiment 5 went in
\* week 20 with 800 + 20 * 30 men
RegimentFiveWitness ==
    /\ army.listed = 20
    /\ army.pc = "answer"
    /\ army.regiments = <<>>
    /\ army.weekRegiment5goes = 20
    /\ army.biggest.number = 5
    /\ army.biggest.strength = 1400

====
